---------------------------- MODULE Spec2Model ----------------------------
(***************************************************************************)
(* Model of lemon's TokenProcessing (src/unnamed/part_002): the pipeline   *)
(* that turns the flat token list of one statement into a typed expression *)
(* tree, with its cast-cost and overload scoring helpers.                  *)
(*                                                                         *)
(* Token lists live in an arena (lists): a TokenList* of the code is an    *)
(* index into it.  Indices into a token list are 0-based as in the code;   *)
(* At/Erase/ReplaceAt/InsertAt convert to TLA+'s 1-based sequences.        *)
(***************************************************************************)
EXTENDS Integers, Sequences, FiniteSets, TLC

VARIABLES
    lists,              \* arena of token lists: lists[id] is one TokenList
    root,               \* root[t]: id of tokensRoot of invocation t (0: none)
    input,              \* input[t]: the token list handed to processTokens
    hint,               \* hint[t]: the resultType handed to it, or NULL
    linearTokenLists,   \* static worklist of processTokens (list ids)
    parenthesisStack,   \* static stack of processParentheses
    commaPositions,     \* static scratch list of processCommaSeparators
    k,                  \* k[t]: position of invocation t in the worklist
    idx,                \* idx[t]: loop index i of processDefines
    pc,                 \* pc[t]: the pass invocation t runs next
    error,              \* error[t]: message of the CHECK_ERROR that fired, or ""
    ub,                 \* ub[t]: the invocation read outside a token list
    localVariables,     \* mContext.mLocalVariables: names visible in scope
    functionVariables,  \* mContext.mFunction's local variables: name -> type
    query,              \* arguments of a helper function called on its own
    answer              \* its result

vars == <<lists, root, input, hint, linearTokenLists, parenthesisStack,
          commaPositions, k, idx, pc, error, ub, localVariables,
          functionVariables, query, answer>>

pipeVars == <<lists, root, input, hint, linearTokenLists, parenthesisStack,
              commaPositions, k, idx, pc, error, ub, localVariables,
              functionVariables>>

NULL == "NULL"

Min2(a, b) == IF a < b THEN a ELSE b

RECURSIVE Pow2(_)
Pow2(n) == IF n <= 0 THEN 1 ELSE 2 * Pow2(n - 1)

(***************************************************************************)
(* Type registry (PredefinedDataTypes, DataTypeDefinition).                *)
(***************************************************************************)
FixedIntTypes == {"INT_8", "UINT_8", "INT_16", "UINT_16",
                  "INT_32", "UINT_32", "INT_64", "UINT_64"}

IntegerTypes == FixedIntTypes \cup {"CONST_INT", "BOOL"}

DataTypes == IntegerTypes \cup {"VOID"}

TypeClass(t) == IF t \in IntegerTypes THEN "INTEGER" ELSE "VOID"

TypeSemantics(t) ==
    CASE t = "CONST_INT" -> "CONSTANT"
      [] t = "BOOL"      -> "BOOLEAN"
      [] OTHER           -> "DEFAULT"

TypeBytes(t) ==
    CASE t \in {"INT_8", "UINT_8", "BOOL"} -> 1
      [] t \in {"INT_16", "UINT_16"}       -> 2
      [] t \in {"INT_32", "UINT_32"}       -> 4
      [] t \in {"INT_64", "UINT_64", "CONST_INT"} -> 8
      [] OTHER -> 0

TypeIsSigned(t) == t \in {"INT_8", "INT_16", "INT_32", "INT_64", "CONST_INT"}

\* (uint8)DataTypeHelper::getBaseType(t) & 0x07: the base-2 size class
SizeClass(t) ==
    CASE TypeBytes(t) = 2 -> 1
      [] TypeBytes(t) = 4 -> 2
      [] TypeBytes(t) = 8 -> 3
      [] OTHER -> 0

(***************************************************************************)
(* Operator tables.                                                        *)
(***************************************************************************)
AssignOperators == {"ASSIGN", "ASSIGN_PLUS", "ASSIGN_MINUS", "ASSIGN_MULTIPLY",
                    "ASSIGN_DIVIDE", "ASSIGN_MODULO", "ASSIGN_SHIFT_LEFT",
                    "ASSIGN_SHIFT_RIGHT", "ASSIGN_AND", "ASSIGN_OR", "ASSIGN_XOR"}

SymmetricOperators == {"BINARY_PLUS", "BINARY_MINUS", "BINARY_MULTIPLY",
                       "BINARY_DIVIDE", "BINARY_MODULO", "BINARY_SHIFT_LEFT",
                       "BINARY_SHIFT_RIGHT", "BINARY_AND", "BINARY_OR",
                       "BINARY_XOR", "LOGICAL_AND", "LOGICAL_OR", "COLON"}

CompareOperators == {"COMPARE_EQUAL", "COMPARE_NOT_EQUAL", "COMPARE_LESS",
                     "COMPARE_LESS_OR_EQUAL", "COMPARE_GREATER",
                     "COMPARE_GREATER_OR_EQUAL"}

\* A priority table with the additive and the multiplicative rows swapped
PriorityAdditiveFirst(op) ==
    CASE op \in AssignOperators -> 15
      [] op \in {"BINARY_PLUS", "BINARY_MINUS"} -> 5
      [] op \in {"BINARY_MULTIPLY", "BINARY_DIVIDE", "BINARY_MODULO"} -> 6
      [] OTHER -> 2

operatorPriorityLookup(op) ==
    CASE op \in AssignOperators -> 15
      [] op \in {"BINARY_PLUS", "BINARY_MINUS"} -> 6
      [] op \in {"BINARY_MULTIPLY", "BINARY_DIVIDE", "BINARY_MODULO"} -> 5
      [] op \in {"BINARY_SHIFT_LEFT", "BINARY_SHIFT_RIGHT"} -> 7
      [] op = "BINARY_AND" -> 10
      [] op = "BINARY_OR" -> 12
      [] op = "BINARY_XOR" -> 11
      [] op = "LOGICAL_AND" -> 13
      [] op = "LOGICAL_OR" -> 14
      [] op \in {"UNARY_NOT", "UNARY_BITNOT", "UNARY_DECREMENT",
                 "UNARY_INCREMENT"} -> 3
      [] op \in {"COMPARE_EQUAL", "COMPARE_NOT_EQUAL"} -> 9
      [] op \in {"COMPARE_LESS", "COMPARE_LESS_OR_EQUAL", "COMPARE_GREATER",
                 "COMPARE_GREATER_OR_EQUAL"} -> 8
      [] op \in {"QUESTIONMARK", "COLON"} -> 15
      [] op = "SEMICOLON_SEPARATOR" -> 18
      [] op = "COMMA_SEPARATOR" -> 17
      [] op \in {"PARENTHESIS_LEFT", "PARENTHESIS_RIGHT", "BRACKET_LEFT",
                 "BRACKET_RIGHT"} -> 2

\* An associativity table whose entry 15 reads "left to right"
AssociativityAssignLeft(priority) == priority \in {3, 16}

\* "false" = left to right, "true" = right to left.  The table has 18
\* entries (priorities 0..17); priority 18 (the semicolon) is never looked
\* up, because the semicolon fails the check made before the lookup.
operatorAssociativityLookup(priority) == priority \in {3, 15, 16}

(***************************************************************************)
(* Cast-cost scoring.                                                      *)
(***************************************************************************)
CANNOT_CAST == 255

\* A scoring that leaves signedness out of account
CastPriorityIgnoringSign(original, target) ==
    IF original = target THEN 0
    ELSE IF TypeClass(original) = "INTEGER" /\ TypeClass(target) = "INTEGER"
    THEN (IF TypeBytes(original) = TypeBytes(target) THEN 1 ELSE 16)
    ELSE CANNOT_CAST

getImplicitCastPriority(original, target) ==
    IF original = target THEN 0
    ELSE IF TypeClass(original) = "INTEGER" /\ TypeClass(target) = "INTEGER"
    THEN IF TypeSemantics(original) = "CONSTANT" THEN 1
         ELSE IF TypeSemantics(target) = "CONSTANT" THEN 1
         ELSE IF TypeBytes(original) = TypeBytes(target)
         THEN (IF TypeIsSigned(original) /\ ~TypeIsSigned(target) THEN 2 ELSE 1)
         ELSE LET sizeA == SizeClass(original)
                  sizeB == SizeClass(target)
                  loss  == TypeIsSigned(original) /\ ~TypeIsSigned(target)
              IN  IF TypeBytes(original) < TypeBytes(target)
                  THEN ((IF loss THEN 32 ELSE 16) + (sizeB - sizeA)) % 256
                  ELSE ((IF loss THEN 64 ELSE 48) + (sizeB - sizeA)) % 256
    ELSE CANNOT_CAST


\* uint16 getPriorityOfSignature(const BinaryOperatorSignature&, left, right)
PackPriorities(prioLeft, prioRight) ==
    IF prioLeft < prioRight
    THEN prioRight * 256 + prioLeft
    ELSE prioLeft * 256 + prioRight

getPriorityOfOperatorSignature(signature, left, right) ==
    PackPriorities(getImplicitCastPriority(left, signature.mLeft),
                   getImplicitCastPriority(right, signature.mRight))

\* std::sort(priorities.begin(), priorities.end(), std::greater<uint8>())
RECURSIVE SortDescending(_)
SortDescending(s) ==
    IF Len(s) <= 1 THEN s
    ELSE LET m == CHOOSE i \in 1..Len(s) : \A j \in 1..Len(s) : s[i] >= s[j]
             rest == [j \in 1..(Len(s) - 1) |-> IF j < m THEN s[j] ELSE s[j + 1]]
         IN  <<s[m]>> \o SortDescending(rest)

(***************************************************************************)
(* A packed uint32 key is kept as its four bytes, most significant first:  *)
(* the order of the packed integers is the lexicographic order of the      *)
(* bytes (0xffffffff is <<255,255,255,255>>, 0xff000000 is <<255,0,0,0>>). *)
(***************************************************************************)
KeyLess(a, b) ==
    \E i \in 1..4 : a[i] < b[i] /\ \A j \in 1..(i - 1) : a[j] = b[j]

KEY_MISMATCH == <<255, 255, 255, 255>>

KEY_LIMIT == <<255, 0, 0, 0>>

\* A key packed from the first four costs in parameter order
getPriorityOfSignatureUnsorted(original, target) ==
    IF Len(original) # Len(target) THEN KEY_MISMATCH
    ELSE LET size == Len(original)
             priorities == [i \in 1..size |->
                               getImplicitCastPriority(original[i], target[i])]
         IN  [i \in 1..4 |-> IF i <= Min2(size, 4) THEN priorities[i] ELSE 0]

\* uint32 getPriorityOfSignature(const std::vector<const DataTypeDefinition*>&,
\*                               const Function::ParameterList&)
getPriorityOfSignature(original, target) ==
    IF Len(original) # Len(target) THEN KEY_MISMATCH
    ELSE LET size == Len(original)
             priorities == SortDescending(
                 [i \in 1..size |-> getImplicitCastPriority(original[i], target[i])])
         IN  [i \in 1..4 |-> IF i <= Min2(size, 4) THEN priorities[i] ELSE 0]

(***************************************************************************)
(* Overload selection of assignStatementDataType: functions is the list    *)
(* getFunctionsByName returns (registration order), each function a record *)
(* [params, returnType].  The result is the index of the function chosen,  *)
(* 0 when the CHECK_ERROR fires.                                           *)
(***************************************************************************)
\* A search that stops at the first overload the arguments can be cast to
FirstViableOverload(parameterTypes, functions, i, bestPriority, function) ==
    LET viable == {j \in i..Len(functions) :
                      KeyLess(getPriorityOfSignature(parameterTypes, functions[j].params),
                              bestPriority)}
    IN  IF viable = {} THEN [function |-> function, bestPriority |-> bestPriority]
        ELSE LET j == CHOOSE m \in viable : \A n \in viable : m <= n
             IN  [function |-> j,
                  bestPriority |-> getPriorityOfSignature(parameterTypes,
                                                          functions[j].params)]

RECURSIVE FindBestOverload(_, _, _, _, _)
FindBestOverload(parameterTypes, functions, i, bestPriority, function) ==
    IF i > Len(functions) THEN [function |-> function, bestPriority |-> bestPriority]
    ELSE LET priority == getPriorityOfSignature(parameterTypes, functions[i].params)
         IN  IF KeyLess(priority, bestPriority)
             THEN FindBestOverload(parameterTypes, functions, i + 1, priority, i)
             ELSE FindBestOverload(parameterTypes, functions, i + 1, bestPriority, function)

SelectOverload(parameterTypes, functions) ==
    IF Len(functions) = 0
    THEN [function |-> 0, error |-> "Unknown function name"]
    ELSE LET best == FindBestOverload(parameterTypes, functions, 1, KEY_LIMIT, 0)
         IN  IF KeyLess(best.bestPriority, KEY_LIMIT)
             THEN [function |-> best.function, error |-> ""]
             ELSE [function |-> 0, error |-> "No appropriate function overload found"]

getOperatorType(op) ==
    CASE op \in AssignOperators    -> "ASSIGNMENT"
      [] op \in SymmetricOperators -> "SYMMETRIC"
      [] op \in CompareOperators   -> "COMPARISON"
      [] op = "QUESTIONMARK"       -> "TRINARY"
      [] OTHER                     -> "UNKNOWN"

Sig(l, r, res) == [mLeft |-> l, mRight |-> r, mResult |-> res]

SignatureOrder == <<"INT_64", "UINT_64", "INT_32", "UINT_32",
                    "INT_16", "UINT_16", "INT_8", "UINT_8">>

signaturesSymmetric == [i \in 1..8 |-> Sig(SignatureOrder[i], SignatureOrder[i], SignatureOrder[i])]

signaturesComparison == [i \in 1..8 |-> Sig(SignatureOrder[i], SignatureOrder[i], "BOOL")]

signaturesTrinary == [i \in 1..8 |-> Sig("BOOL", SignatureOrder[i], SignatureOrder[i])]

RECURSIVE BestSignatureLoop(_, _, _, _, _, _, _)
BestSignatureStep(signatures, exactMatchLeftRequired, left, right, i, bestPriority, best, priority) ==
    IF priority < bestPriority
    THEN BestSignatureLoop(signatures, exactMatchLeftRequired, left, right, i + 1, priority, i)
    ELSE BestSignatureLoop(signatures, exactMatchLeftRequired, left, right, i + 1, bestPriority, best)

BestSignatureLoop(signatures, exactMatchLeftRequired, left, right, i, bestPriority, best) ==
    IF i > Len(signatures) THEN [bestPriority |-> bestPriority, signature |-> best]
    ELSE IF exactMatchLeftRequired /\ signatures[i].mLeft # left
    THEN BestSignatureLoop(signatures, exactMatchLeftRequired, left, right, i + 1, bestPriority, best)
    ELSE BestSignatureStep(signatures, exactMatchLeftRequired, left, right, i, bestPriority, best,
                           getPriorityOfOperatorSignature(signatures[i], left, right))

\* [found, signature]; found = FALSE leaves *outSignature null.  An operator
\* of unknown type fails the CHECK_ERROR of the switch: error is set.
SignaturesOf(opType) ==
    CASE opType \in {"ASSIGNMENT", "SYMMETRIC"} -> signaturesSymmetric
      [] opType = "COMPARISON" -> signaturesComparison
      [] opType = "TRINARY"    -> signaturesTrinary
      [] OTHER                 -> <<>>

BestSignatureResult(opType, signatures, r) ==
    IF opType = "UNKNOWN"
    THEN [found |-> FALSE, signature |-> NULL, error |-> "Unknown operator type"]
    ELSE IF r.bestPriority # 65280
    THEN [found |-> TRUE, signature |-> signatures[r.signature], error |-> ""]
    ELSE [found |-> FALSE, signature |-> NULL, error |-> ""]

\* A choice that never asks for an exact match of the left slot
BestSignatureOfAnyLeft(opType, signatures, left, right) ==
    BestSignatureResult(opType, signatures,
        BestSignatureLoop(signatures, FALSE, left, right, 1, 65280, 0))

BestSignatureOf(opType, signatures, left, right) ==
    BestSignatureResult(opType, signatures,
        BestSignatureLoop(signatures, opType = "ASSIGNMENT", left, right, 1, 65280, 0))

getBestSignature(op, left, right) ==
    BestSignatureOf(getOperatorType(op), SignaturesOf(getOperatorType(op)), left, right)

(***************************************************************************)
(* Constant folding.  An int64 is modelled as a WordBits-bit two's         *)
(* complement integer.                                                     *)
(***************************************************************************)
WordBits == 6

WordMin == 0 - Pow2(WordBits - 1)

WordMax == Pow2(WordBits - 1) - 1

Words == WordMin..WordMax

Wrap(x) == ((x - WordMin) % Pow2(WordBits)) + WordMin

Abs(x) == IF x < 0 THEN 0 - x ELSE x

\* C++ integer division truncates towards zero; % takes the dividend's sign
CDiv(a, b) == IF (a < 0) = (b < 0) THEN Abs(a) \div Abs(b) ELSE 0 - (Abs(a) \div Abs(b))

CMod(a, b) == a - b * CDiv(a, b)

Value(v) == [kind |-> "value", value |-> v]

\* What a build may do on undefined behaviour: trap, or produce any value
Undefined == {[kind |-> "trap", value |-> 0]} \cup {Value(v) : v \in Words}

\* A division that leaves out the test for a zero divisor
DivideUnguarded(constLeft, constRight) ==
    IF constRight = 0 \/ (constLeft = WordMin /\ constRight = -1) THEN Undefined
    ELSE {Value(CDiv(constLeft, constRight))}

\* (constRight.mValue == 0) ? 0 : (constLeft.mValue / constRight.mValue)
DivideConstants(constLeft, constRight) ==
    IF constRight = 0 THEN {Value(0)}
    ELSE IF constLeft = WordMin /\ constRight = -1 THEN Undefined
    ELSE {Value(CDiv(constLeft, constRight))}

\* The set of results the call may have: [kind |-> "value"] for "return true"
\* with outValue, "none" for "return false", "trap" for an abnormal end.
\* Signed overflow of + - * and of << wraps (every build's two's complement
\* arithmetic); MIN / -1, x % 0, MIN % -1 and a shift count outside
\* 0..WordBits-1 are undefined.
tryReplaceConstants(constLeft, constRight, op) ==
    CASE op = "BINARY_PLUS"     -> {Value(Wrap(constLeft + constRight))}
      [] op = "BINARY_MINUS"    -> {Value(Wrap(constLeft - constRight))}
      [] op = "BINARY_MULTIPLY" -> {Value(Wrap(constLeft * constRight))}
      [] op = "BINARY_DIVIDE"   -> DivideConstants(constLeft, constRight)
      [] op = "BINARY_MODULO"   ->
            IF constRight = 0 \/ (constLeft = WordMin /\ constRight = -1) THEN Undefined
            ELSE {Value(CMod(constLeft, constRight))}
      [] op = "BINARY_SHIFT_LEFT" ->
            IF constRight < 0 \/ constRight >= WordBits THEN Undefined
            ELSE {Value(Wrap(constLeft * Pow2(constRight)))}
      [] op = "BINARY_SHIFT_RIGHT" ->
            IF constRight < 0 \/ constRight >= WordBits THEN Undefined
            ELSE {Value(constLeft \div Pow2(constRight))}
      [] OTHER -> {[kind |-> "none", value |-> 0]}

(***************************************************************************)
(* Tokens and token lists.                                                 *)
(***************************************************************************)
Identifier(name) == [type |-> "IDENTIFIER", mIdentifier |-> name]

Keyword(kw) == [type |-> "KEYWORD", mKeyword |-> kw]

Op(op) == [type |-> "OPERATOR", mOperator |-> op]

Constant(v, dt) == [type |-> "CONSTANT", mValue |-> v, mDataType |-> dt]

VarType(dt) == [type |-> "VARTYPE", mDataType |-> dt]

\* A statement token is created with mDataType = nullptr
ParenthesisToken(ptype, content) ==
    [type |-> "PARENTHESIS", mParenthesisType |-> ptype, mContent |-> content,
     mDataType |-> NULL]

CommaSeparatedListToken(items) == [type |-> "COMMA_SEPARATED", mContent |-> items]

VariableToken(variable) ==
    [type |-> "VARIABLE", mVariable |-> variable, mDataType |-> NULL]

FunctionToken(name, parenthesis) ==
    [type |-> "FUNCTION", mFunctionName |-> name, mParenthesis |-> parenthesis,
     mFunction |-> [name |-> "", params |-> <<>>, returnType |-> NULL], mIsBaseCall |-> FALSE, mDataType |-> NULL]

MemoryAccessToken(dt, address) ==
    [type |-> "MEMORY_ACCESS", mAddress |-> address, mDataType |-> dt]

UnaryOperationToken(op, argument) ==
    [type |-> "UNARY_OPERATION", mOperator |-> op, mArgument |-> argument,
     mDataType |-> NULL]

BinaryOperationToken(op, left, right) ==
    [type |-> "BINARY_OPERATION", mOperator |-> op, mLeft |-> left,
     mRight |-> right, mDataType |-> NULL]

ValueCastToken(dt, argument) ==
    [type |-> "VALUE_CAST", mArgument |-> argument, mDataType |-> dt]

StatementTypes == {"CONSTANT", "VARIABLE", "FUNCTION", "MEMORY_ACCESS",
                   "PARENTHESIS", "UNARY_OPERATION", "BINARY_OPERATION",
                   "VALUE_CAST"}

isStatement(tok) == tok.type \in StatementTypes

IsOp(tok, op) == tok.type = "OPERATOR" /\ tok.mOperator = op

At(tokens, i) == tokens[i + 1]

Erase(tokens, i) == SubSeq(tokens, 1, i) \o SubSeq(tokens, i + 2, Len(tokens))

ReplaceAt(tokens, i, tok) == [tokens EXCEPT ![i + 1] = tok]

InsertAt(tokens, tok, i) ==
    SubSeq(tokens, 1, i) \o <<tok>> \o SubSeq(tokens, i + 1, Len(tokens))

\* TokenList::moveFrom(other, start, count): what is moved, what is left
Moved(tokens, start, count) == SubSeq(tokens, start + 1, start + count)

Rest(tokens, start, count) ==
    SubSeq(tokens, 1, start) \o SubSeq(tokens, start + count + 1, Len(tokens))

(***************************************************************************)
(* The compile context: what GlobalsLookup and the enclosing function      *)
(* hold while a statement is processed.                                    *)
(***************************************************************************)
GlobalDefines ==
    [ONE   |-> <<Constant(1, "CONST_INT")>>,
     PAIR  |-> <<Identifier("a"), Op("BINARY_PLUS"), Identifier("ONE")>>,
     EMPTY |-> <<>>,
     LOOP  |-> <<Constant(1, "CONST_INT"), Op("BINARY_PLUS"), Identifier("LOOP")>>]

GlobalVariables ==
    [a |-> "INT_32", b |-> "INT_32", c |-> "UINT_8", v |-> "UINT_16",
     p1 |-> "INT_32", p2 |-> "INT_32", p3 |-> "INT_32", p4 |-> "INT_32",
     p5 |-> "INT_32", p6 |-> "INT_32", p7 |-> "INT_32", p8 |-> "INT_32"]

Fn(params, ret) == [params |-> params, returnType |-> ret]

GlobalFunctions ==
    [f |-> <<Fn(<<"INT_32">>, "INT_32"), Fn(<<"INT_64">>, "INT_64")>>,
     g |-> <<Fn(<<>>, "VOID")>>,
     h |-> <<Fn(<<"INT_32", "UINT_8">>, "UINT_8")>>]

getFunctionsByName(name) ==
    IF name \in DOMAIN GlobalFunctions THEN GlobalFunctions[name] ELSE <<>>

\* mContext.mFunction: the function whose body is compiled
CurrentFunction == [name |-> "main", params |-> <<"INT_32">>, returnType |-> "INT_32"]

\* String(functionName).startsWith("base.") and the name after the prefix
BaseNames == [base_main |-> "main", base_f |-> "f"]

StartsWithBase(name) == name \in DOMAIN BaseNames

(***************************************************************************)
(* Structural passes.                                                      *)
(***************************************************************************)
IsDefine(tok) == tok.type = "IDENTIFIER" /\ tok.mIdentifier \in DOMAIN GlobalDefines

\* The first index j >= i of an identifier that names a define; Len(tokens)
\* when the loop of processDefines runs to its end without finding one.
RECURSIVE NextDefine(_, _)
NextDefine(tokens, i) ==
    IF i >= Len(tokens) THEN Len(tokens)
    ELSE IF IsDefine(At(tokens, i)) THEN i
    ELSE NextDefine(tokens, i + 1)

RECURSIVE InsertContent(_, _, _, _)
InsertContent(tokens, content, i, kk) ==
    IF kk >= Len(content) THEN tokens
    ELSE InsertContent(InsertAt(tokens, At(content, kk), i + kk), content, i, kk + 1)

\* One substitution of processDefines, at index i: tokens.erase(i), then the
\* define's content inserted at i, i+1, ...
SubstituteDefine(tokens, i) ==
    InsertContent(Erase(tokens, i), GlobalDefines[At(tokens, i).mIdentifier], i, 0)

\* A scan that takes every delimiter for a round parenthesis
ParenthesisTypeRound(op) == "PARENTHESIS"

ParenthesisTypeOf(op) ==
    IF op \in {"PARENTHESIS_LEFT", "PARENTHESIS_RIGHT"} THEN "PARENTHESIS" ELSE "BRACKET"

\* processParentheses from index i on: ls is the arena, id the list scanned,
\* stack the static parenthesisStack, out the worklist.
RECURSIVE ParenthesesLoop(_, _, _, _, _)
ParenthesesLoop(ls, id, i, stack, out) ==
    LET tokens == ls[id]
    IN  IF i >= Len(tokens)
        THEN IF stack # <<>>
             THEN [lists |-> ls, stack |-> stack, out |-> out,
                   error |-> "Parenthesis not matching (too many open)"]
             ELSE [lists |-> ls, stack |-> stack, out |-> Append(out, id), error |-> ""]
        ELSE LET tok == At(tokens, i)
             IN  IF tok.type = "OPERATOR"
                    /\ tok.mOperator \in {"PARENTHESIS_LEFT", "BRACKET_LEFT"}
                 THEN ParenthesesLoop(ls, id, i + 1,
                          Append(stack, <<ParenthesisTypeOf(tok.mOperator), i>>), out)
                 ELSE IF tok.type = "OPERATOR"
                         /\ tok.mOperator \in {"PARENTHESIS_RIGHT", "BRACKET_RIGHT"}
                 THEN LET ptype == ParenthesisTypeOf(tok.mOperator)
                      IN  IF stack = <<>> \/ stack[Len(stack)][1] # ptype
                          THEN [lists |-> ls, stack |-> stack, out |-> out,
                                error |-> "Parenthesis not matching (too many closed)"]
                          ELSE LET startPosition == stack[Len(stack)][2]
                                   endPosition == i
                                   isEmpty == (endPosition = startPosition + 1)
                                   newId == Len(ls) + 1
                                   t1 == ReplaceAt(tokens, startPosition,
                                                   ParenthesisToken(ptype, newId))
                                   t2 == Erase(t1, endPosition)
                                   count == endPosition - startPosition - 1
                                   content == IF isEmpty THEN <<>>
                                              ELSE Moved(t2, startPosition + 1, count)
                                   t3 == IF isEmpty THEN t2
                                         ELSE Rest(t2, startPosition + 1, count)
                                   ls2 == Append([ls EXCEPT ![id] = t3], content)
                               IN  ParenthesesLoop(ls2, id,
                                       i - (endPosition - startPosition) + 1,
                                       SubSeq(stack, 1, Len(stack) - 1),
                                       IF isEmpty THEN out ELSE Append(out, newId))
                 ELSE ParenthesesLoop(ls, id, i + 1, stack, out)

\* parenthesisStack.clear(), then the scan
processParentheses(ls, id, out) == ParenthesesLoop(ls, id, 0, <<>>, out)

IsComma(tok) == IsOp(tok, "COMMA_SEPARATOR")

\* A comma scan whose loop starts at index 1 instead of 0
RECURSIVE FindCommasFromOne(_, _)
FindCommasFromOne(tokens, i) ==
    IF i >= Len(tokens) THEN <<>>
    ELSE IF i > 0 /\ IsComma(At(tokens, i))
    THEN <<i>> \o FindCommasFromOne(tokens, i + 1)
    ELSE FindCommasFromOne(tokens, i + 1)

\* "Find comma positions": the indices of the unit's comma operators
RECURSIVE FindCommas(_, _)
FindCommas(tokens, i) ==
    IF i >= Len(tokens) THEN <<>>
    ELSE IF IsComma(At(tokens, i)) THEN <<i>> \o FindCommas(tokens, i + 1)
    ELSE FindCommas(tokens, i + 1)

\* An item loop that moves from the comma itself on (first without the + 1)
RECURSIVE MoveItemsWithComma(_, _, _, _)
MoveItemsWithComma(tokens, positions, j, items) ==
    IF j < 0 THEN [tokens |-> tokens, items |-> items, error |-> ""]
    ELSE IF j > 0
    THEN MoveItemsWithComma(Rest(tokens, positions[j + 1], Len(tokens) - positions[j + 1]),
             positions, j - 1,
             [items EXCEPT ![j + 1] =
                  Moved(tokens, positions[j + 1], Len(tokens) - positions[j + 1])])
    ELSE MoveItemsWithComma(Rest(tokens, 1, Len(tokens) - 1), positions, j - 1,
             [items EXCEPT ![j + 1] = Moved(tokens, 1, Len(tokens) - 1)])

\* The loop "for (int j = commaPositions.size() - 1; j >= 0; --j)": items is
\* commaSeparatedListToken.mContent, positions the shifted comma positions
\* with the virtual comma 0 in front (positions[j + 1] is commaPositions[j]).
RECURSIVE MoveItems(_, _, _, _)
MoveItems(tokens, positions, j, items) ==
    IF j < 0 THEN [tokens |-> tokens, items |-> items, error |-> ""]
    ELSE LET first == positions[j + 1] + 1
             item == Moved(tokens, first, Len(tokens) - first)
             t1 == Rest(tokens, first, Len(tokens) - first)
             items2 == [items EXCEPT ![j + 1] = item]
         IN  IF j > 0
             THEN IF ~IsComma(At(t1, positions[j + 1]))
                  THEN [tokens |-> t1, items |-> items2, error |-> "Wrong token index"]
                  ELSE MoveItems(Erase(t1, positions[j + 1]), positions, j - 1, items2)
             ELSE MoveItems(t1, positions, j - 1, items2)

\* A comma split that puts the items at the end of the worklist
RECURSIVE CommaLoopAppending(_, _, _, _)
CommaLoopAppending(ls, work, kk, scratch) ==
    IF kk >= Len(work)
    THEN [lists |-> ls, work |-> work, commaPositions |-> scratch, error |-> ""]
    ELSE LET id == At(work, kk)
             tokens == ls[id]
             found == FindCommas(tokens, 0)
         IN  IF found = <<>> THEN CommaLoopAppending(ls, work, kk + 1, found)
             ELSE LET n == Len(found) + 1
                      base == Len(ls)
                      itemIds == [j \in 1..n |-> base + j]
                      t1 == <<CommaSeparatedListToken(itemIds)>> \o tokens
                      positions == <<0>> \o [j \in 1..Len(found) |-> found[j] + 1]
                      r == MoveItems(t1, positions, n - 1, [j \in 1..n |-> <<>>])
                      ls2 == [ls EXCEPT ![id] = r.tokens] \o r.items
                  IN  IF r.error # ""
                      THEN [lists |-> ls2, work |-> work,
                            commaPositions |-> positions, error |-> r.error]
                      ELSE CommaLoopAppending(ls2, work \o itemIds, kk + 1, positions)

\* processCommaSeparators from worklist index kk on (0-based)
RECURSIVE CommaLoop(_, _, _, _)
CommaLoop(ls, work, kk, scratch) ==
    IF kk >= Len(work)
    THEN [lists |-> ls, work |-> work, commaPositions |-> scratch, error |-> ""]
    ELSE LET id == At(work, kk)
             tokens == ls[id]
             found == FindCommas(tokens, 0)
         IN  IF found = <<>> THEN CommaLoop(ls, work, kk + 1, found)
             ELSE LET n == Len(found) + 1
                      base == Len(ls)
                      itemIds == [j \in 1..n |-> base + j]
                      t1 == <<CommaSeparatedListToken(itemIds)>> \o tokens
                      positions == <<0>> \o [j \in 1..Len(found) |-> found[j] + 1]
                      r == MoveItems(t1, positions, n - 1, [j \in 1..n |-> <<>>])
                      ls2 == [ls EXCEPT ![id] = r.tokens] \o r.items
                      work2 == SubSeq(work, 1, kk + 1) \o itemIds
                                   \o SubSeq(work, kk + 2, Len(work))
                  IN  IF r.error # ""
                      THEN [lists |-> ls2, work |-> work,
                            commaPositions |-> positions, error |-> r.error]
                      ELSE IF Len(r.tokens) # 1
                      THEN [lists |-> ls2, work |-> work, commaPositions |-> positions,
                            error |-> "Token list must only contain the CommaSeparatedListToken afterwards"]
                      ELSE CommaLoop(ls2, work2, kk + n + 1, positions)

processCommaSeparators(ls, work, scratch) == CommaLoop(ls, work, 0, scratch)

(***************************************************************************)
(* Recognition passes, each over one unit (tokens).                        *)
(***************************************************************************)
\* A null Variable* / Function*
NoVariable == [name |-> "", dataType |-> NULL, scope |-> "none"]

NoFunction == [name |-> "", params |-> <<>>, returnType |-> NULL]

\* A lookup that compares the name of the first variable only
findFirstLocalVariable(locals, name) ==
    IF locals # <<>> /\ locals[1].name = name THEN locals[1] ELSE NoVariable

\* findLocalVariable: the variable of that name visible in scope, or null
findLocalVariable(locals, name) ==
    IF \E j \in 1..Len(locals) : locals[j].name = name
    THEN locals[CHOOSE j \in 1..Len(locals) :
                    /\ locals[j].name = name
                    /\ \A m \in 1..(j - 1) : locals[m].name # name]
    ELSE NoVariable

\* Function::getLocalVariableByIdentifier on the enclosing function's table
getLocalVariableByIdentifier(fvars, name) == findLocalVariable(fvars, name)

RECURSIVE VariableDefinitionsLoop(_, _, _, _)
VariableDefinitionsLoop(tokens, i, locals, fvars) ==
    IF i >= Len(tokens)
    THEN [tokens |-> tokens, locals |-> locals, fvars |-> fvars, error |-> ""]
    ELSE LET tok == At(tokens, i)
             Fail(msg) == [tokens |-> tokens, locals |-> locals, fvars |-> fvars,
                           error |-> msg]
         IN  IF tok.type = "KEYWORD"
             THEN IF tok.mKeyword = "FUNCTION"
                     /\ ~(i + 1 < Len(tokens) /\ At(tokens, i + 1).type = "IDENTIFIER")
                  THEN Fail("Function keyword must be followed by an identifier")
                  ELSE VariableDefinitionsLoop(tokens, i + 1, locals, fvars)
             ELSE IF tok.type = "VARTYPE"
             THEN IF ~(i + 1 < Len(tokens))
                  THEN Fail("Type name must not be the last token")
                  ELSE IF At(tokens, i + 1).type = "IDENTIFIER"
                  THEN LET varType == tok.mDataType
                           identifier == At(tokens, i + 1).mIdentifier
                       IN  IF TypeClass(varType) = "VOID"
                           THEN Fail("void variables not allowed")
                           ELSE IF findLocalVariable(locals, identifier) # NoVariable
                           THEN Fail("Variable name already used")
                           ELSE LET existing == getLocalVariableByIdentifier(fvars, identifier)
                                    variable == IF existing # NoVariable THEN existing
                                                ELSE [name |-> identifier,
                                                      dataType |-> varType,
                                                      scope |-> "local"]
                                    fvars2 == IF existing # NoVariable THEN fvars
                                              ELSE Append(fvars, variable)
                                    t1 == ReplaceAt(tokens, i, VariableToken(variable))
                                IN  VariableDefinitionsLoop(Erase(t1, i + 1), i + 1,
                                        Append(locals, variable), fvars2)
                  ELSE VariableDefinitionsLoop(tokens, i + 1, locals, fvars)
             ELSE VariableDefinitionsLoop(tokens, i + 1, locals, fvars)

processVariableDefinitions(tokens, locals, fvars) ==
    VariableDefinitionsLoop(tokens, 0, locals, fvars)

IsGroup(tok, ptype) == tok.type = "PARENTHESIS" /\ tok.mParenthesisType = ptype

RECURSIVE FunctionCallsLoop(_, _)
FunctionCallsLoop(tokens, i) ==
    IF ~(i < Len(tokens) - 1) THEN [tokens |-> tokens, error |-> ""]
    ELSE IF At(tokens, i).type = "IDENTIFIER" /\ IsGroup(At(tokens, i + 1), "PARENTHESIS")
    THEN LET functionName == At(tokens, i).mIdentifier
         IN  IF ~(getFunctionsByName(functionName) # <<>> \/ StartsWithBase(functionName))
             THEN [tokens |-> tokens, error |-> "Unknown function name"]
             ELSE FunctionCallsLoop(
                      Erase(ReplaceAt(tokens, i,
                                FunctionToken(functionName, At(tokens, i + 1))), i + 1),
                      i + 1)
    ELSE FunctionCallsLoop(tokens, i + 1)

\* The loop bound is tokens.size()-1 in size_t: callers handle the empty unit
processFunctionCalls(tokens) == FunctionCallsLoop(tokens, 0)

\* A check of the bracket content that only counts its tokens
BracketContentCounted(content) ==
    IF Len(content) # 1 THEN "Expected exactly one token inside brackets" ELSE ""

\* The two CHECK_ERRORs on the bracket content: the message of the one that
\* fires, "" when none does
BracketContentError(content) ==
    IF Len(content) # 1 THEN "Expected exactly one token inside brackets"
    ELSE IF ~isStatement(content[1]) THEN "Expected statement token inside brackets"
    ELSE ""

RECURSIVE MemoryAccessesLoop(_, _, _)
MemoryAccessesLoop(ls, tokens, i) ==
    IF ~(i < Len(tokens) - 1) THEN [tokens |-> tokens, error |-> ""]
    ELSE IF At(tokens, i).type = "VARTYPE" /\ IsGroup(At(tokens, i + 1), "BRACKET")
    THEN LET content == ls[At(tokens, i + 1).mContent]
         IN  IF BracketContentError(content) # ""
             THEN [tokens |-> tokens, error |-> BracketContentError(content)]
             ELSE MemoryAccessesLoop(ls,
                      Erase(ReplaceAt(tokens, i,
                                MemoryAccessToken(At(tokens, i).mDataType, content[1])),
                            i + 1),
                      i + 1)
    ELSE MemoryAccessesLoop(ls, tokens, i + 1)

processMemoryAccesses(ls, tokens) == MemoryAccessesLoop(ls, tokens, 0)

RECURSIVE ExplicitCastsLoop(_, _)
ExplicitCastsLoop(tokens, i) ==
    IF ~(i < Len(tokens) - 1) THEN [tokens |-> tokens, error |-> ""]
    ELSE IF At(tokens, i).type = "VARTYPE" /\ IsGroup(At(tokens, i + 1), "PARENTHESIS")
    THEN ExplicitCastsLoop(
             Erase(ReplaceAt(tokens, i,
                       ValueCastToken(At(tokens, i).mDataType, At(tokens, i + 1))), i + 1),
             i + 1)
    ELSE ExplicitCastsLoop(tokens, i + 1)

processExplicitCasts(tokens) == ExplicitCastsLoop(tokens, 0)

RECURSIVE IdentifiersLoop(_, _, _)
IdentifiersLoop(tokens, i, locals) ==
    IF i >= Len(tokens) THEN [tokens |-> tokens, error |-> ""]
    ELSE IF At(tokens, i).type = "IDENTIFIER"
    THEN LET name == At(tokens, i).mIdentifier
             local == findLocalVariable(locals, name)
             variable == IF local # NoVariable THEN local
                         ELSE IF name \in DOMAIN GlobalVariables
                         THEN [name |-> name, dataType |-> GlobalVariables[name],
                               scope |-> "global"]
                         ELSE NoVariable
         IN  IF variable = NoVariable
             THEN [tokens |-> tokens, error |-> "Unable to resolve identifier"]
             ELSE IdentifiersLoop(ReplaceAt(tokens, i, VariableToken(variable)),
                                  i + 1, locals)
    ELSE IdentifiersLoop(tokens, i + 1, locals)

processIdentifiers(tokens, locals) == IdentifiersLoop(tokens, 0, locals)

(***************************************************************************)
(* Unary folding.                                                          *)
(***************************************************************************)
\* The postfix loop "for (int i = 0; i < (int)tokens.size(); ++i)"
RECURSIVE PostfixLoop(_, _)
PostfixLoop(tokens, i) ==
    IF i >= Len(tokens) THEN tokens
    ELSE LET tok == At(tokens, i)
         IN  IF tok.type = "OPERATOR"
                /\ tok.mOperator \in {"UNARY_DECREMENT", "UNARY_INCREMENT"}
                /\ i # 0
                /\ isStatement(At(tokens, i - 1))
             THEN PostfixLoop(
                      Erase(ReplaceAt(tokens, i,
                                UnaryOperationToken(tok.mOperator, At(tokens, i - 1))),
                            i - 1),
                      i + 1)
             ELSE PostfixLoop(tokens, i + 1)

processUnaryPostfix(tokens) == PostfixLoop(tokens, 0)

\* A prefix loop that takes every minus for a sign, whatever stands before it
RECURSIVE PrefixLoopAlwaysUnary(_, _)
PrefixLoopAlwaysUnary(tokens, i) ==
    IF i < 0 THEN [tokens |-> tokens, error |-> ""]
    ELSE IF At(tokens, i).type = "OPERATOR"
            /\ At(tokens, i).mOperator \in {"BINARY_MINUS", "UNARY_NOT", "UNARY_BITNOT"}
    THEN IF i + 1 = Len(tokens)
         THEN [tokens |-> tokens, error |-> "Unary operator not allowed as last"]
         ELSE IF ~isStatement(At(tokens, i + 1))
         THEN [tokens |-> tokens, error |-> "Right of operator is no statement"]
         ELSE PrefixLoopAlwaysUnary(
                  Erase(ReplaceAt(tokens, i,
                            UnaryOperationToken(At(tokens, i).mOperator,
                                                At(tokens, i + 1))),
                        i + 1),
                  i - 1)
    ELSE IF At(tokens, i).type = "OPERATOR"
            /\ At(tokens, i).mOperator \in {"UNARY_DECREMENT", "UNARY_INCREMENT"}
            /\ i + 1 # Len(tokens)
            /\ isStatement(At(tokens, i + 1))
    THEN PrefixLoopAlwaysUnary(
             Erase(ReplaceAt(tokens, i,
                       UnaryOperationToken(At(tokens, i).mOperator, At(tokens, i + 1))),
                   i + 1),
             i - 1)
    ELSE PrefixLoopAlwaysUnary(tokens, i - 1)

\* The prefix loop "for (int i = (int)tokens.size() - 1; i >= 0; --i)"
RECURSIVE PrefixLoop(_, _)
PrefixLoop(tokens, i) ==
    IF i < 0 THEN [tokens |-> tokens, error |-> ""]
    ELSE LET tok == At(tokens, i)
         IN  IF tok.type = "OPERATOR"
                /\ tok.mOperator \in {"BINARY_MINUS", "UNARY_NOT", "UNARY_BITNOT"}
             THEN IF i + 1 = Len(tokens)
                  THEN [tokens |-> tokens, error |-> "Unary operator not allowed as last"]
                  ELSE IF tok.mOperator = "BINARY_MINUS" /\ i > 0
                          /\ At(tokens, i - 1).type # "OPERATOR"
                  THEN PrefixLoop(tokens, i - 1)
                  ELSE IF ~isStatement(At(tokens, i + 1))
                  THEN [tokens |-> tokens, error |-> "Right of operator is no statement"]
                  ELSE PrefixLoop(
                           Erase(ReplaceAt(tokens, i,
                                     UnaryOperationToken(tok.mOperator, At(tokens, i + 1))),
                                 i + 1),
                           i - 1)
             ELSE IF tok.type = "OPERATOR"
                     /\ tok.mOperator \in {"UNARY_DECREMENT", "UNARY_INCREMENT"}
                     /\ i + 1 # Len(tokens)
                     /\ isStatement(At(tokens, i + 1))
             THEN PrefixLoop(
                      Erase(ReplaceAt(tokens, i,
                                UnaryOperationToken(tok.mOperator, At(tokens, i + 1))),
                            i + 1),
                      i - 1)
             ELSE PrefixLoop(tokens, i - 1)

processUnaryPrefix(tokens) == PrefixLoop(tokens, Len(tokens) - 1)

(***************************************************************************)
(* Binary folding: one iteration of the for (;;) of                       *)
(* processBinaryOperations.                                                *)
(***************************************************************************)
\* A scan that compares with <= and so takes the last of equal priorities
RECURSIVE FindLastBestOperator(_, _, _, _)
FindLastBestOperator(tokens, i, bestPriority, bestPosition) ==
    IF i >= Len(tokens)
    THEN [bestPriority |-> bestPriority, bestPosition |-> bestPosition, error |-> ""]
    ELSE IF At(tokens, i).type # "OPERATOR"
    THEN FindLastBestOperator(tokens, i + 1, bestPriority, bestPosition)
    ELSE IF ~((i > 0 /\ i < Len(tokens) - 1)
                /\ At(tokens, i).mOperator # "SEMICOLON_SEPARATOR")
    THEN [bestPriority |-> bestPriority, bestPosition |-> bestPosition,
          error |-> "Operator is not allowed here"]
    ELSE IF operatorPriorityLookup(At(tokens, i).mOperator) <= bestPriority
    THEN FindLastBestOperator(tokens, i + 1,
             operatorPriorityLookup(At(tokens, i).mOperator), i)
    ELSE FindLastBestOperator(tokens, i + 1, bestPriority, bestPosition)

\* "Find operator with lowest priority": [bestPriority, bestPosition, error]
RECURSIVE FindBestOperator(_, _, _, _)
FindBestOperator(tokens, i, bestPriority, bestPosition) ==
    IF i >= Len(tokens)
    THEN [bestPriority |-> bestPriority, bestPosition |-> bestPosition, error |-> ""]
    ELSE IF At(tokens, i).type = "OPERATOR"
    THEN LET op == At(tokens, i).mOperator
         IN  IF ~((i > 0 /\ i < Len(tokens) - 1) /\ op # "SEMICOLON_SEPARATOR")
             THEN [bestPriority |-> bestPriority, bestPosition |-> bestPosition,
                   error |-> "Operator is not allowed here"]
             ELSE LET priority == operatorPriorityLookup(op)
                      isLower == IF priority = bestPriority
                                 THEN operatorAssociativityLookup(priority)
                                 ELSE priority < bestPriority
                  IN  IF isLower
                      THEN FindBestOperator(tokens, i + 1, priority, i)
                      ELSE FindBestOperator(tokens, i + 1, bestPriority, bestPosition)
    ELSE FindBestOperator(tokens, i + 1, bestPriority, bestPosition)

BestOperator(tokens) == FindBestOperator(tokens, 0, 255, 0)

\* The set of outcomes of one iteration: [tokens, error, done, trap]; done is
\* the break at bestPosition == 0.  More than one outcome only where
\* tryReplaceConstants is undefined.
BinaryIteration(tokens) ==
    LET best == BestOperator(tokens)
        Out(toks, err, done, trap) ==
            [tokens |-> toks, error |-> err, done |-> done, trap |-> trap]
    IN  IF best.error # "" THEN {Out(tokens, best.error, FALSE, FALSE)}
        ELSE IF best.bestPosition = 0 THEN {Out(tokens, "", TRUE, FALSE)}
        ELSE LET bestPosition == best.bestPosition
                 op == At(tokens, bestPosition).mOperator
                 leftToken == At(tokens, bestPosition - 1)
                 rightToken == At(tokens, bestPosition + 1)
                 Fold(tok) == Erase(Erase(ReplaceAt(tokens, bestPosition, tok),
                                          bestPosition + 1), bestPosition - 1)
                 binary == Out(Fold(BinaryOperationToken(op, leftToken, rightToken)),
                               "", FALSE, FALSE)
             IN  IF ~isStatement(leftToken)
                 THEN {Out(tokens, "Left of operator is no statement", FALSE, FALSE)}
                 ELSE IF ~isStatement(rightToken)
                 THEN {Out(tokens, "Right of operator is no statement", FALSE, FALSE)}
                 ELSE IF leftToken.type = "CONSTANT" /\ rightToken.type = "CONSTANT"
                 THEN {IF r.kind = "trap" THEN Out(tokens, "", FALSE, TRUE)
                       ELSE IF r.kind = "value"
                       THEN Out(Fold(Constant(r.value, leftToken.mDataType)),
                                "", FALSE, FALSE)
                       ELSE binary
                       : r \in tryReplaceConstants(leftToken.mValue, rightToken.mValue, op)}
                 ELSE {binary}

(***************************************************************************)
(* Type assignment.  assignStatementDataType(ls, token, resultType) is     *)
(* [lists, token, error]: the arena and the token after the call (the code *)
(* writes both in place); the C++ return value is token.mDataType.         *)
(***************************************************************************)
RECURSIVE assignStatementDataType(_, _, _)
RECURSIVE AssignParameters(_, _, _, _)

\* "Assign types": ids[j] is the list whose only token is parameter j
AssignParameters(ls, ids, j, types) ==
    IF j > Len(ids) THEN [lists |-> ls, types |-> types, error |-> ""]
    ELSE LET r == assignStatementDataType(ls, ls[ids[j]][1], NULL)
             ls2 == [r.lists EXCEPT ![ids[j]] = <<r.token>>]
         IN  IF r.error # "" THEN [lists |-> ls2, types |-> types, error |-> r.error]
             ELSE AssignParameters(ls2, ids, j + 1, Append(types, r.token.mDataType))

\* The lists holding the parameter tokens of a call, or the CHECK_ERROR met
\* while collecting them
ParameterLists(ls, content) ==
    LET tokens == ls[content]
    IN  IF tokens = <<>> THEN [ids |-> <<>>, error |-> ""]
        ELSE IF tokens[1].type = "COMMA_SEPARATED"
        THEN LET items == tokens[1].mContent
             IN  IF \E j \in 1..Len(items) : Len(ls[items[j]]) # 1
                 THEN [ids |-> <<>>, error |-> "Function parameter content must be one token"]
                 ELSE IF \E j \in 1..Len(items) : ~isStatement(ls[items[j]][1])
                 THEN [ids |-> <<>>, error |-> "Function parameter content must be a statement"]
                 ELSE [ids |-> items, error |-> ""]
        ELSE IF Len(tokens) # 1
        THEN [ids |-> <<>>, error |-> "Function parameter content must be one token"]
        ELSE IF ~isStatement(tokens[1])
        THEN [ids |-> <<>>, error |-> "Function parameter content must be a statement"]
        ELSE [ids |-> <<content>>, error |-> ""]

\* A resolution whose base call takes every argument that can be cast
ResolveFunctionCastingBase(functionName, parameterTypes) ==
    IF StartsWithBase(functionName) /\ BaseNames[functionName] = CurrentFunction.name
    THEN IF Len(parameterTypes) # Len(CurrentFunction.params)
         THEN [function |-> NoFunction, base |-> FALSE,
               error |-> "Base function call has different parameter count"]
         ELSE IF \E i \in 1..Len(parameterTypes) :
                     getImplicitCastPriority(parameterTypes[i],
                                             CurrentFunction.params[i]) = CANNOT_CAST
         THEN [function |-> NoFunction, base |-> FALSE,
               error |-> "Base function call has different parameter"]
         ELSE [function |-> CurrentFunction, base |-> TRUE, error |-> ""]
    ELSE LET functions == getFunctionsByName(functionName)
             sel == SelectOverload(parameterTypes, functions)
         IN  IF sel.error # ""
             THEN [function |-> NoFunction, base |-> FALSE, error |-> sel.error]
             ELSE [function |-> [name |-> functionName,
                                 params |-> functions[sel.function].params,
                                 returnType |-> functions[sel.function].returnType],
                   base |-> FALSE, error |-> ""]

\* "Find out which function signature actually fits": [function, base, error]
ResolveFunction(functionName, parameterTypes) ==
    IF StartsWithBase(functionName) /\ BaseNames[functionName] = CurrentFunction.name
    THEN IF Len(parameterTypes) # Len(CurrentFunction.params)
         THEN [function |-> NoFunction, base |-> FALSE,
               error |-> "Base function call has different parameter count"]
         ELSE IF \E i \in 1..Len(parameterTypes) :
                     parameterTypes[i] # CurrentFunction.params[i]
         THEN [function |-> NoFunction, base |-> FALSE,
               error |-> "Base function call has different parameter"]
         ELSE [function |-> CurrentFunction, base |-> TRUE, error |-> ""]
    ELSE LET functions == getFunctionsByName(functionName)
             sel == SelectOverload(parameterTypes, functions)
         IN  IF sel.error # ""
             THEN [function |-> NoFunction, base |-> FALSE, error |-> sel.error]
             ELSE [function |-> [name |-> functionName,
                                 params |-> functions[sel.function].params,
                                 returnType |-> functions[sel.function].returnType],
                   base |-> FALSE, error |-> ""]

\* A wrapping that also converts between signed and unsigned
WithCastOnTypeChange(operand, dataType, slot) ==
    IF dataType # slot THEN ValueCastToken(slot, operand)
    ELSE operand

\* "Where necessary, add implicit casts"
WithCast(operand, dataType, slot) ==
    IF TypeBytes(dataType) # TypeBytes(slot) THEN ValueCastToken(slot, operand)
    ELSE operand

Ret(l, t, e) == [lists |-> l, token |-> t, error |-> e]

\* case Token::Type::FUNCTION, after the parameter types are assigned
FunctionResolved(token, ap, rf) ==
    IF rf.error # "" THEN Ret(ap.lists, token, rf.error)
    ELSE Ret(ap.lists,
             [token EXCEPT !.mIsBaseCall = rf.base,
                           !.mFunction = rf.function,
                           !.mDataType = rf.function.returnType],
             "")

FunctionParametersAssigned(token, ap) ==
    IF ap.error # "" THEN Ret(ap.lists, token, ap.error)
    ELSE FunctionResolved(token, ap, ResolveFunction(token.mFunctionName, ap.types))

FunctionParametersCollected(ls, token, pl) ==
    IF pl.error # "" THEN Ret(ls, token, pl.error)
    ELSE FunctionParametersAssigned(token, AssignParameters(ls, pl.ids, 1, <<>>))

\* case Token::Type::PARENTHESIS, after the inner statement is assigned
ParenthesisAssigned(token, r) ==
    Ret([r.lists EXCEPT ![token.mContent] = <<r.token>>],
        IF r.error # "" THEN token
        ELSE [token EXCEPT !.mDataType = r.token.mDataType],
        r.error)

\* case Token::Type::UNARY_OPERATION, after the argument is assigned
UnaryAssigned(token, r) ==
    Ret(r.lists,
        IF r.error # "" THEN [token EXCEPT !.mArgument = r.token]
        ELSE [token EXCEPT !.mArgument = r.token, !.mDataType = r.token.mDataType],
        r.error)

\* case Token::Type::BINARY_OPERATION, after "Choose best fitting signature"
BinarySignatureChosen(token, opType, l, r, best) ==
    IF best.error # "" THEN Ret(r.lists, token, best.error)
    ELSE IF ~best.found
    THEN Ret(r.lists, token, "Can not implicitly cast between types")
    ELSE IF opType # "TRINARY" /\ TypeClass(l.token.mDataType) = "INTEGER"
            /\ TypeClass(r.token.mDataType) = "INTEGER"
    THEN Ret(r.lists,
             [token EXCEPT
                 !.mDataType = best.signature.mResult,
                 !.mLeft = WithCast(l.token, l.token.mDataType, best.signature.mLeft),
                 !.mRight = WithCast(r.token, r.token.mDataType, best.signature.mRight)],
             "")
    ELSE Ret(r.lists, [token EXCEPT !.mDataType = best.signature.mResult], "")

BinaryRightAssigned(token, opType, l, r) ==
    IF r.error # ""
    THEN Ret(r.lists, [token EXCEPT !.mLeft = l.token, !.mRight = r.token], r.error)
    ELSE BinarySignatureChosen([token EXCEPT !.mLeft = l.token, !.mRight = r.token],
             opType, l, r,
             getBestSignature(token.mOperator, l.token.mDataType, r.token.mDataType))

\* A typing that hands the expected type to the right operand of every operator
BinaryLeftAssignedSameHint(token, opType, expectedType, l) ==
    IF l.error # "" THEN Ret(l.lists, [token EXCEPT !.mLeft = l.token], l.error)
    ELSE BinaryRightAssigned(token, opType, l,
             assignStatementDataType(l.lists, token.mRight, expectedType))

BinaryLeftAssigned(token, opType, expectedType, l) ==
    IF l.error # "" THEN Ret(l.lists, [token EXCEPT !.mLeft = l.token], l.error)
    ELSE BinaryRightAssigned(token, opType, l,
             assignStatementDataType(l.lists, token.mRight,
                 IF opType = "ASSIGNMENT" THEN l.token.mDataType ELSE expectedType))

BinaryOperation(ls, token, opType, expectedType) ==
    BinaryLeftAssigned(token, opType, expectedType,
                       assignStatementDataType(ls, token.mLeft, expectedType))

\* case Token::Type::VALUE_CAST, after the argument is assigned
ValueCastAssigned(token, r) ==
    IF r.error # "" THEN Ret(r.lists, [token EXCEPT !.mArgument = r.token], r.error)
    ELSE IF getImplicitCastPriority(r.token.mDataType, token.mDataType) = CANNOT_CAST
    THEN Ret(r.lists, [token EXCEPT !.mArgument = r.token], "Explicit cast not possible")
    ELSE Ret(r.lists, [token EXCEPT !.mArgument = r.token], "")

\* case Token::Type::MEMORY_ACCESS, after the address is assigned
MemoryAccessAssigned(token, r) ==
    Ret(r.lists, [token EXCEPT !.mAddress = r.token], r.error)

assignStatementDataType(ls, token, resultType) ==
    CASE token.type = "CONSTANT" ->
            Ret(ls, [token EXCEPT !.mDataType =
                        IF resultType # NULL THEN resultType ELSE "CONST_INT"], "")
      [] token.type = "VARIABLE" ->
            Ret(ls, [token EXCEPT !.mDataType = token.mVariable.dataType], "")
      [] token.type = "FUNCTION" ->
            FunctionParametersCollected(ls, token,
                ParameterLists(ls, token.mParenthesis.mContent))
      [] token.type = "MEMORY_ACCESS" ->
            MemoryAccessAssigned(token,
                assignStatementDataType(ls, token.mAddress, "UINT_32"))
      [] token.type = "PARENTHESIS" ->
            IF Len(ls[token.mContent]) # 1
            THEN Ret(ls, token, "Parenthesis content must be one token")
            ELSE IF ~isStatement(ls[token.mContent][1])
            THEN Ret(ls, token, "Parenthesis content must be a statement")
            ELSE ParenthesisAssigned(token,
                     assignStatementDataType(ls, ls[token.mContent][1], resultType))
      [] token.type = "UNARY_OPERATION" ->
            UnaryAssigned(token, assignStatementDataType(ls, token.mArgument, resultType))
      [] token.type = "BINARY_OPERATION" ->
            BinaryOperation(ls, token, getOperatorType(token.mOperator),
                IF getOperatorType(token.mOperator) = "SYMMETRIC" THEN resultType ELSE NULL)
      [] token.type = "VALUE_CAST" ->
            ValueCastAssigned(token,
                assignStatementDataType(ls, token.mArgument, token.mDataType))
      [] OTHER -> Ret(ls, token, "")

\* assignStatementDataTypes: every statement token of the root list
RECURSIVE assignStatementDataTypes(_, _, _, _)
assignStatementDataTypes(ls, id, i, resultType) ==
    IF i >= Len(ls[id]) THEN [lists |-> ls, error |-> ""]
    ELSE IF isStatement(At(ls[id], i))
    THEN LET r == assignStatementDataType(ls, At(ls[id], i), resultType)
             ls2 == [r.lists EXCEPT ![id] = ReplaceAt(r.lists[id], i, r.token)]
         IN  IF r.error # "" THEN [lists |-> ls2, error |-> r.error]
             ELSE assignStatementDataTypes(ls2, id, i + 1, resultType)
    ELSE assignStatementDataTypes(ls, id, i + 1, resultType)

(***************************************************************************)
(* processTokens as a state machine: one action per pass.  Invocation t    *)
(* runs the passes in the order of the code; the per-unit passes run on    *)
(* unit linearTokenLists[k[t]].                                            *)
(***************************************************************************)
Invocations == {1, 2}

\* Cap on the length of a token list while defines are substituted
MaxTokens == 8

\* "for (TokenList* tokenList : linearTokenLists)": the unit the loop of
\* invocation t stands on, inside the worklist as long as no other
\* invocation has shortened it
Unit(t) == At(linearTokenLists, k[t])

Goto(t, label) == pc' = [pc EXCEPT ![t] = label]

Throw(t, msg) ==
    /\ pc' = [pc EXCEPT ![t] = "error"]
    /\ error' = [error EXCEPT ![t] = msg]

\* The range-based for of processTokens: the unit after position kk, or the
\* type assignment after the last one
LoopTo(t, kk, work) ==
    /\ k' = [k EXCEPT ![t] = kk]
    /\ pc' = [pc EXCEPT ![t] = IF kk < Len(work) THEN "variables" ELSE "types"]

ProcessDefines(t) ==
    /\ pc[t] = "defines"
    /\ LET tokens == lists[root[t]]
           j == NextDefine(tokens, idx[t])
       IN  IF j >= Len(tokens)
           THEN /\ Goto(t, "parentheses")
                /\ UNCHANGED <<lists, idx>>
           ELSE /\ Len(tokens) <= MaxTokens
                /\ lists' = [lists EXCEPT ![root[t]] = SubstituteDefine(tokens, j)]
                /\ idx' = [idx EXCEPT ![t] = j + 1]
                /\ UNCHANGED pc
    /\ UNCHANGED <<root, input, hint, linearTokenLists, parenthesisStack,
                   commaPositions, k, error, ub, localVariables, functionVariables,
                   query, answer>>

\* A structuring pass without "linearTokenLists.clear()"
ProcessParenthesesKeepingWorklist(t) ==
    /\ pc[t] = "parentheses"
    /\ LET r == processParentheses(lists, root[t], linearTokenLists)
       IN  /\ lists' = r.lists
           /\ linearTokenLists' = r.out
           /\ parenthesisStack' = r.stack
           /\ IF r.error # "" THEN Throw(t, r.error)
              ELSE Goto(t, "commas") /\ UNCHANGED error
    /\ UNCHANGED <<root, input, hint, commaPositions, k, idx, ub,
                   localVariables, functionVariables, query, answer>>

ProcessParentheses(t) ==
    /\ pc[t] = "parentheses"
    /\ LET r == processParentheses(lists, root[t], <<>>)
       IN  /\ lists' = r.lists
           /\ linearTokenLists' = r.out
           /\ parenthesisStack' = r.stack
           /\ IF r.error # "" THEN Throw(t, r.error)
              ELSE Goto(t, "commas") /\ UNCHANGED error
    /\ UNCHANGED <<root, input, hint, commaPositions, k, idx, ub,
                   localVariables, functionVariables, query, answer>>

ProcessCommaSeparators(t) ==
    /\ pc[t] = "commas"
    /\ LET r == processCommaSeparators(lists, linearTokenLists, commaPositions)
       IN  /\ lists' = r.lists
           /\ linearTokenLists' = r.work
           /\ commaPositions' = r.commaPositions
           /\ IF r.error # "" THEN Throw(t, r.error) /\ UNCHANGED k
              ELSE LoopTo(t, 0, r.work) /\ UNCHANGED error
    /\ UNCHANGED <<root, input, hint, parenthesisStack, idx, ub,
                   localVariables, functionVariables, query, answer>>

ProcessVariableDefinitions(t) ==
    /\ pc[t] = "variables"
    /\ k[t] < Len(linearTokenLists)
    /\ LET r == processVariableDefinitions(lists[Unit(t)], localVariables,
                                           functionVariables)
       IN  /\ lists' = [lists EXCEPT ![Unit(t)] = r.tokens]
           /\ localVariables' = r.locals
           /\ functionVariables' = r.fvars
           /\ IF r.error # "" THEN Throw(t, r.error)
              ELSE Goto(t, "functions") /\ UNCHANGED error
    /\ UNCHANGED <<root, input, hint, linearTokenLists, parenthesisStack,
                   commaPositions, k, idx, ub, query, answer>>

\* A pass that records the message of a failed check and goes on
BoundedPassLenient(t, label, next, r) ==
    /\ pc[t] = label
    /\ k[t] < Len(linearTokenLists)
    /\ lists[Unit(t)] # <<>>
    /\ lists' = [lists EXCEPT ![Unit(t)] = r.tokens]
    /\ error' = [error EXCEPT ![t] = r.error]
    /\ Goto(t, next)
    /\ UNCHANGED <<root, input, hint, linearTokenLists, parenthesisStack,
                   commaPositions, k, idx, ub, localVariables, functionVariables,
                   query, answer>>

\* A pass whose loop runs "for (size_t i = 0; i < tokens.size()-1; ++i)": on
\* an empty unit the bound wraps around and tokens[0] is read outside the
\* list.  The build may crash there, or read something that matches nothing.
BoundedPass(t, label, next, r) ==
    /\ pc[t] = label
    /\ k[t] < Len(linearTokenLists)
    /\ IF lists[Unit(t)] = <<>>
       THEN /\ ub' = [ub EXCEPT ![t] = TRUE]
            /\ \E outcome \in {"crashed", next} : Goto(t, outcome)
            /\ UNCHANGED <<lists, error>>
       ELSE /\ lists' = [lists EXCEPT ![Unit(t)] = r.tokens]
            /\ IF r.error # "" THEN Throw(t, r.error)
               ELSE Goto(t, next) /\ UNCHANGED error
            /\ UNCHANGED ub
    /\ UNCHANGED <<root, input, hint, linearTokenLists, parenthesisStack,
                   commaPositions, k, idx, localVariables, functionVariables,
                   query, answer>>

ProcessFunctionCalls(t) ==
    BoundedPass(t, "functions", "memory", processFunctionCalls(lists[Unit(t)]))

ProcessMemoryAccesses(t) ==
    BoundedPass(t, "memory", "casts", processMemoryAccesses(lists, lists[Unit(t)]))

ProcessExplicitCasts(t) ==
    BoundedPass(t, "casts", "identifiers", processExplicitCasts(lists[Unit(t)]))

ProcessIdentifiers(t) ==
    /\ pc[t] = "identifiers"
    /\ k[t] < Len(linearTokenLists)
    /\ LET r == processIdentifiers(lists[Unit(t)], localVariables)
       IN  /\ lists' = [lists EXCEPT ![Unit(t)] = r.tokens]
           /\ IF r.error # "" THEN Throw(t, r.error)
              ELSE Goto(t, "postfix") /\ UNCHANGED error
    /\ UNCHANGED <<root, input, hint, linearTokenLists, parenthesisStack,
                   commaPositions, k, idx, ub, localVariables, functionVariables,
                   query, answer>>

\* processUnaryOperations, first loop
ProcessUnaryPostfix(t) ==
    /\ pc[t] = "postfix"
    /\ k[t] < Len(linearTokenLists)
    /\ lists' = [lists EXCEPT ![Unit(t)] = processUnaryPostfix(lists[Unit(t)])]
    /\ Goto(t, "prefix")
    /\ UNCHANGED <<root, input, hint, linearTokenLists, parenthesisStack,
                   commaPositions, k, idx, error, ub, localVariables,
                   functionVariables, query, answer>>

\* processUnaryOperations, second loop
ProcessUnaryPrefix(t) ==
    /\ pc[t] = "prefix"
    /\ k[t] < Len(linearTokenLists)
    /\ LET r == processUnaryPrefix(lists[Unit(t)])
       IN  /\ lists' = [lists EXCEPT ![Unit(t)] = r.tokens]
           /\ IF r.error # "" THEN Throw(t, r.error)
              ELSE Goto(t, "binary") /\ UNCHANGED error
    /\ UNCHANGED <<root, input, hint, linearTokenLists, parenthesisStack,
                   commaPositions, k, idx, ub, localVariables, functionVariables,
                   query, answer>>

\* One iteration of the loop of processBinaryOperations
ProcessBinaryOperations(t) ==
    /\ pc[t] = "binary"
    /\ k[t] < Len(linearTokenLists)
    /\ \E r \in BinaryIteration(lists[Unit(t)]) :
          /\ lists' = [lists EXCEPT ![Unit(t)] = r.tokens]
          /\ IF r.trap THEN Goto(t, "crashed") /\ UNCHANGED <<error, k>>
             ELSE IF r.error # "" THEN Throw(t, r.error) /\ UNCHANGED k
             ELSE IF r.done THEN LoopTo(t, k[t] + 1, linearTokenLists) /\ UNCHANGED error
             ELSE UNCHANGED <<pc, error, k>>
    /\ UNCHANGED <<root, input, hint, linearTokenLists, parenthesisStack,
                   commaPositions, idx, ub, localVariables, functionVariables,
                   query, answer>>

AssignStatementDataTypes(t) ==
    /\ pc[t] = "types"
    /\ LET r == assignStatementDataTypes(lists, root[t], 0, hint[t])
       IN  /\ lists' = r.lists
           /\ IF r.error # "" THEN Throw(t, r.error)
              ELSE Goto(t, "done") /\ UNCHANGED error
    /\ UNCHANGED <<root, input, hint, linearTokenLists, parenthesisStack,
                   commaPositions, k, idx, ub, localVariables, functionVariables,
                   query, answer>>

ProcessTokens(t) ==
    \/ ProcessDefines(t)
    \/ ProcessParentheses(t)
    \/ ProcessCommaSeparators(t)
    \/ ProcessVariableDefinitions(t)
    \/ ProcessFunctionCalls(t)
    \/ ProcessMemoryAccesses(t)
    \/ ProcessExplicitCasts(t)
    \/ ProcessIdentifiers(t)
    \/ ProcessUnaryPostfix(t)
    \/ ProcessUnaryPrefix(t)
    \/ ProcessBinaryOperations(t)
    \/ AssignStatementDataTypes(t)

Next == \E t \in Invocations : ProcessTokens(t)

\* One call processTokens(tokens, line, rt) on a fresh compile context
InitWith(tokens, rt) ==
    /\ lists = <<tokens>>
    /\ root = [t \in Invocations |-> IF t = 1 THEN 1 ELSE 0]
    /\ input = [t \in Invocations |-> IF t = 1 THEN tokens ELSE <<>>]
    /\ hint = [t \in Invocations |-> IF t = 1 THEN rt ELSE NULL]
    /\ linearTokenLists = <<>>
    /\ parenthesisStack = <<>>
    /\ commaPositions = <<>>
    /\ k = [t \in Invocations |-> 0]
    /\ idx = [t \in Invocations |-> 0]
    /\ pc = [t \in Invocations |-> IF t = 1 THEN "defines" ELSE "idle"]
    /\ error = [t \in Invocations |-> ""]
    /\ ub = [t \in Invocations |-> FALSE]
    /\ localVariables = <<>>
    /\ functionVariables = <<>>
    /\ query = [fn |-> "none"]
    /\ answer = [ready |-> FALSE]

(***************************************************************************)
(* Inputs.  An identifier or constant written by position (p1, p2, ...)    *)
(* keeps the tokens of one input distinct.                                 *)
(***************************************************************************)
PositionNames == <<"p1", "p2", "p3", "p4", "p5", "p6", "p7", "p8">>

Strings(alphabet, maxLen) == UNION {[1..n -> alphabet] : n \in 0..maxLen}

\* Structural inputs: delimiters, commas and identifiers
MaxStructLen == 4

StructSymbols == {"(", ")", "[", "]", ",", "id"}

StructToken(sym, i) ==
    CASE sym = "("  -> Op("PARENTHESIS_LEFT")
      [] sym = ")"  -> Op("PARENTHESIS_RIGHT")
      [] sym = "["  -> Op("BRACKET_LEFT")
      [] sym = "]"  -> Op("BRACKET_RIGHT")
      [] sym = ","  -> Op("COMMA_SEPARATOR")
      [] sym = "id" -> Identifier(PositionNames[i])

StructInputs ==
    {[i \in 1..Len(w) |-> StructToken(w[i], i)] : w \in Strings(StructSymbols, MaxStructLen)}

InitStruct == \E tokens \in StructInputs : InitWith(tokens, NULL)

SpecStruct == InitStruct /\ [][Next]_vars

(***************************************************************************)
(* Delimiter matching, stated without the scan: a token list is properly   *)
(* matched when deleting adjacent pairs "( )" and "[ ]" of its delimiters  *)
(* again and again leaves nothing.                                         *)
(***************************************************************************)
DelimiterOperators == {"PARENTHESIS_LEFT", "PARENTHESIS_RIGHT",
                       "BRACKET_LEFT", "BRACKET_RIGHT"}

IsDelimiter(tok) == tok.type = "OPERATOR" /\ tok.mOperator \in DelimiterOperators

Delimiters(tokens) == SelectSeq(tokens, IsDelimiter)

ClosesPair(open, close) ==
    \/ open.mOperator = "PARENTHESIS_LEFT" /\ close.mOperator = "PARENTHESIS_RIGHT"
    \/ open.mOperator = "BRACKET_LEFT" /\ close.mOperator = "BRACKET_RIGHT"

RECURSIVE CancelPairs(_)
CancelPairs(s) ==
    IF \E i \in 1..(Len(s) - 1) : ClosesPair(s[i], s[i + 1])
    THEN LET i == CHOOSE j \in 1..(Len(s) - 1) : ClosesPair(s[j], s[j + 1])
         IN  CancelPairs(SubSeq(s, 1, i - 1) \o SubSeq(s, i + 2, Len(s)))
    ELSE s

ProperlyMatched(tokens) == CancelPairs(Delimiters(tokens)) = <<>>

StructuralErrors == {"Parenthesis not matching (too many closed)",
                     "Parenthesis not matching (too many open)"}

\* C1: whenever processParentheses runs on a token list whose delimiters
\* are not properly matched (a closing delimiter of the wrong kind, one with
\* nothing open, or an opening one never closed), the step ends in a
\* structural error and never goes on to the next pass.
C1_MismatchedDelimitersFail ==
    [][\A t \in Invocations :
          (pc[t] = "parentheses" /\ pc'[t] # "parentheses"
             /\ ~ProperlyMatched(lists[root[t]]))
          => (pc'[t] = "error" /\ error'[t] \in StructuralErrors)]_vars

\* "( p2 ]" has failed with "too many closed"
C1_WrongKindRejected ==
    /\ pc[1] = "error"
    /\ error[1] = "Parenthesis not matching (too many closed)"
    /\ input[1] = <<Op("PARENTHESIS_LEFT"), Identifier("p2"), Op("BRACKET_RIGHT")>>

(***************************************************************************)
(* Helper functions called on their own: query holds the arguments, answer *)
(* the result.  The pipeline is idle.                                      *)
(***************************************************************************)
InitHelper(q) ==
    /\ lists = <<>>
    /\ root = [t \in Invocations |-> 0]
    /\ input = [t \in Invocations |-> <<>>]
    /\ hint = [t \in Invocations |-> NULL]
    /\ linearTokenLists = <<>>
    /\ parenthesisStack = <<>>
    /\ commaPositions = <<>>
    /\ k = [t \in Invocations |-> 0]
    /\ idx = [t \in Invocations |-> 0]
    /\ pc = [t \in Invocations |-> "idle"]
    /\ error = [t \in Invocations |-> ""]
    /\ ub = [t \in Invocations |-> FALSE]
    /\ localVariables = <<>>
    /\ functionVariables = <<>>
    /\ query = q
    /\ answer = [ready |-> FALSE]

(***************************************************************************)
(* getImplicitCastPriority, called for two casts.                          *)
(***************************************************************************)
InitCast ==
    \E a \in DataTypes, b \in DataTypes, c \in DataTypes, d \in DataTypes :
        InitHelper([fn |-> "getImplicitCastPriority",
                    first |-> <<a, b>>, second |-> <<c, d>>])

GetImplicitCastPriority ==
    /\ query.fn = "getImplicitCastPriority"
    /\ ~answer.ready
    /\ answer' = [ready |-> TRUE,
                  first |-> getImplicitCastPriority(query.first[1], query.first[2]),
                  second |-> getImplicitCastPriority(query.second[1], query.second[2])]
    /\ UNCHANGED <<pipeVars, query>>

NextCast == GetImplicitCastPriority

SpecCast == InitCast /\ [][NextCast]_vars

\* The three bands of casts: 1 constant integer to fixed width, 2 equal
\* width and different signedness, 3 different width; 0 for any other pair
ConcreteIntTypes == IntegerTypes \ {"CONST_INT"}

CastBand(cast) ==
    LET original == cast[1]
        target == cast[2]
    IN  CASE original = "CONST_INT" /\ target \in FixedIntTypes -> 1
          [] original \in ConcreteIntTypes /\ target \in ConcreteIntTypes
             /\ TypeBytes(original) = TypeBytes(target)
             /\ TypeIsSigned(original) # TypeIsSigned(target) -> 2
          [] original \in ConcreteIntTypes /\ target \in ConcreteIntTypes
             /\ TypeBytes(original) # TypeBytes(target) -> 3
          [] OTHER -> 0

\* C8 as stated: a cast of a lower band costs strictly less than a cast of
\* a higher band.
C8_BandsStrictlyOrdered ==
    (answer.ready /\ CastBand(query.first) \in 1..3 /\ CastBand(query.second) \in 1..3
        /\ CastBand(query.first) < CastBand(query.second))
    => answer.first < answer.second

\* C8, amended: constant to fixed width costs no more than an equal-width
\* change of signedness (strictly less when that cast is signed to
\* unsigned, the same when it is unsigned to signed), and both cost
\* strictly less than any cast that changes the width.
C8_BandsOrdered ==
    answer.ready =>
        LET b1 == CastBand(query.first)
            b2 == CastBand(query.second)
            toUnsigned == TypeIsSigned(query.second[1])
        IN  /\ (b1 = 1 /\ b2 = 2) => answer.first <= answer.second
            /\ (b1 = 1 /\ b2 = 2 /\ toUnsigned) => answer.first < answer.second
            /\ (b1 = 1 /\ b2 = 2 /\ ~toUnsigned) => answer.first = answer.second
            /\ (b1 \in {1, 2} /\ b2 = 3) => answer.first < answer.second

\* constant -> int32 and uint32 -> int32 both cost 1
C8_ConstantTiesUnsignedToSigned ==
    /\ answer.ready
    /\ query.first = <<"CONST_INT", "INT_32">>
    /\ query.second = <<"UINT_32", "INT_32">>
    /\ answer.first = 1
    /\ answer.second = 1

(***************************************************************************)
(* tryReplaceConstants, called on two constants and an operator.           *)
(***************************************************************************)
FoldOperators == {"BINARY_PLUS", "BINARY_MINUS", "BINARY_MULTIPLY", "BINARY_DIVIDE",
                  "BINARY_MODULO", "BINARY_SHIFT_LEFT", "BINARY_SHIFT_RIGHT",
                  "BINARY_AND", "ASSIGN"}

InitFold ==
    \E l \in Words, r \in Words, op \in FoldOperators :
        InitHelper([fn |-> "tryReplaceConstants",
                    constLeft |-> l, constRight |-> r, op |-> op])

TryReplaceConstants ==
    /\ query.fn = "tryReplaceConstants"
    /\ ~answer.ready
    /\ \E r \in tryReplaceConstants(query.constLeft, query.constRight, query.op) :
          answer' = [ready |-> TRUE, kind |-> r.kind, value |-> r.value]
    /\ UNCHANGED <<pipeVars, query>>

NextFold == TryReplaceConstants

SpecFold == InitFold /\ [][NextFold]_vars

ExactOperators == {"BINARY_PLUS", "BINARY_MINUS", "BINARY_MULTIPLY",
                   "BINARY_SHIFT_LEFT", "BINARY_SHIFT_RIGHT", "BINARY_MODULO"}

\* Where the operator has an integer result at all
HasExactResult(op, l, r) ==
    CASE op = "BINARY_MODULO" -> r # 0
      [] op \in {"BINARY_SHIFT_LEFT", "BINARY_SHIFT_RIGHT"} -> r >= 0 /\ r < WordBits
      [] OTHER -> TRUE

\* Floor of l / 2^r for r >= 0, on integers of either sign
FloorShift(l, r) == IF l >= 0 THEN l \div Pow2(r) ELSE 0 - ((0 - l + Pow2(r) - 1) \div Pow2(r))

ExactResult(op, l, r) ==
    CASE op = "BINARY_PLUS"        -> Wrap(l + r)
      [] op = "BINARY_MINUS"       -> Wrap(l - r)
      [] op = "BINARY_MULTIPLY"    -> Wrap(l * r)
      [] op = "BINARY_SHIFT_LEFT"  -> Wrap(l * Pow2(r))
      [] op = "BINARY_SHIFT_RIGHT" -> FloorShift(l, r)
      [] op = "BINARY_MODULO"      -> IF l >= 0 THEN l % Abs(r) ELSE 0 - ((0 - l) % Abs(r))

\* C7 as stated: for every pair of constants, folding add, subtract,
\* multiply, the shifts and modulo is defined (it returns a value, never an
\* abnormal end) and the value is the operator's exact result.
C7_FoldingDefinedAndExact ==
    (answer.ready /\ query.op \in ExactOperators)
    => /\ answer.kind = "value"
       /\ HasExactResult(query.op, query.constLeft, query.constRight)
          => answer.value = ExactResult(query.op, query.constLeft, query.constRight)

(***************************************************************************)
(* The overload search of assignStatementDataType, called on the types of  *)
(* the arguments and on the list getFunctionsByName returns.               *)
(***************************************************************************)
MaxParams == 2

MaxOverloads == 2

OverloadParamTypes == {"INT_32", "INT_64"}

OverloadArgTypes == {"UINT_16", "CONST_INT", "VOID"}

Registries ==
    {[i \in 1..Len(sigs) |-> Fn(sigs[i], "INT_32")] :
        sigs \in Strings(Strings(OverloadParamTypes, MaxParams), MaxOverloads)}

InitOverload ==
    \E parameterTypes \in Strings(OverloadArgTypes, MaxParams), functions \in Registries :
        InitHelper([fn |-> "selectOverload",
                    parameterTypes |-> parameterTypes, functions |-> functions])

SelectFunctionOverload ==
    /\ query.fn = "selectOverload"
    /\ ~answer.ready
    /\ LET r == SelectOverload(query.parameterTypes, query.functions)
       IN  answer' = [ready |-> TRUE, function |-> r.function, error |-> r.error]
    /\ UNCHANGED <<pipeVars, query>>

NextOverload == SelectFunctionOverload

SpecOverload == InitOverload /\ [][NextOverload]_vars

OverloadKey(functions, i) ==
    getPriorityOfSignature(query.parameterTypes, functions[i].params)

MinimalOverloads(functions) ==
    {i \in 1..Len(functions) :
        \A j \in 1..Len(functions) :
            ~KeyLess(OverloadKey(functions, j), OverloadKey(functions, i))}

Reordered(functions, perm) == [i \in 1..Len(functions) |-> functions[perm[i]]]

\* C9: a successful overload search returns an overload whose packed key is
\* minimal among all registered ones; when only one overload has the
\* minimal key, every registration order selects that same overload; a
\* call with one uint16 argument selects f(int32) over f(int64) in either
\* order.
C9_OverloadKeyMinimal ==
    answer.ready =>
        LET functions == query.functions
            n == Len(functions)
        IN  /\ (answer.error = "")
               <=> (\E i \in 1..n : KeyLess(OverloadKey(functions, i), KEY_LIMIT))
            /\ answer.error = "" => answer.function \in MinimalOverloads(functions)
            /\ (answer.error = "" /\ Cardinality(MinimalOverloads(functions)) = 1)
               => \A perm \in Permutations(1..n) :
                     perm[SelectOverload(query.parameterTypes,
                                         Reordered(functions, perm)).function]
                        = answer.function
            /\ (query.parameterTypes = <<"UINT_16">>
                  /\ {functions[i].params : i \in 1..n} = {<<"INT_32">>, <<"INT_64">>})
               => (answer.error = "" /\ functions[answer.function].params = <<"INT_32">>)

\* f(int64) registered before f(int32): a uint16 argument selects the second
C9_Int32ChosenWhenRegisteredLast ==
    /\ answer.ready
    /\ query.parameterTypes = <<"UINT_16">>
    /\ query.functions = <<Fn(<<"INT_64">>, "INT_32"), Fn(<<"INT_32">>, "INT_32")>>
    /\ answer.function = 2

(***************************************************************************)
(* Operator expressions: operands joined by binary operators.  Operand j   *)
(* is the global variable p<j>, the constant j + 1 or the constant 0, so   *)
(* that constants 2, 3, 4 stand at operands 1, 2, 3.                       *)
(***************************************************************************)
MaxOperands == 3

ExprOperators == {"ASSIGN", "ASSIGN_PLUS", "BINARY_PLUS", "BINARY_MULTIPLY",
                  "BINARY_DIVIDE"}

OperandKinds == {"variable", "constant", "zero"}

Operand(kind, j) ==
    CASE kind = "variable" -> Identifier(PositionNames[j])
      [] kind = "constant" -> Constant(j + 1, "CONST_INT")
      [] kind = "zero"     -> Constant(0, "CONST_INT")

Expression(kinds, ops) ==
    [i \in 1..(2 * Len(kinds) - 1) |->
        IF i % 2 = 1 THEN Operand(kinds[(i + 1) \div 2], (i + 1) \div 2)
        ELSE Op(ops[i \div 2])]

ExprInputs ==
    UNION {{Expression(kinds, ops) :
                kinds \in [1..n -> OperandKinds], ops \in [1..(n - 1) -> ExprOperators]} :
           n \in 1..MaxOperands}

InitExpr == \E tokens \in ExprInputs, rt \in {NULL, "INT_32"} : InitWith(tokens, rt)

SpecExpr == InitExpr /\ [][Next]_vars

\* An operand as the passes before binary folding leave it
Leaf(tok) ==
    IF tok.type = "IDENTIFIER"
    THEN VariableToken([name |-> tok.mIdentifier,
                        dataType |-> GlobalVariables[tok.mIdentifier],
                        scope |-> "global"])
    ELSE tok

\* Binary folding of invocation t has ended: the root is its only unit here
Folded(t) == pc[t] = "types"

IsSumOfProduct(tokens) ==
    /\ Len(tokens) = 5
    /\ IsOp(tokens[2], "BINARY_PLUS")
    /\ IsOp(tokens[4], "BINARY_MULTIPLY")

TwoPlusThreeTimesFour ==
    <<Constant(2, "CONST_INT"), Op("BINARY_PLUS"), Constant(3, "CONST_INT"),
      Op("BINARY_MULTIPLY"), Constant(4, "CONST_INT")>>

\* x op y as binary folding leaves it: one constant when both are constants
\* and the operator is evaluated at compile time, a binary operation otherwise
FoldedPair(op, x, y, value) ==
    IF x.type = "CONSTANT" /\ y.type = "CONSTANT"
    THEN Constant(Wrap(value), x.mDataType)
    ELSE BinaryOperationToken(op, x, y)

\* C4 as stated: 2 + 3 * 4 folds to BinaryOp(+, 2, BinaryOp(*, 3, 4)).
C4_SumOfProductIsBinaryTree ==
    \A t \in Invocations :
        (Folded(t) /\ input[t] = TwoPlusThreeTimesFour)
        => lists[root[t]] =
              <<BinaryOperationToken("BINARY_PLUS", Constant(2, "CONST_INT"),
                    BinaryOperationToken("BINARY_MULTIPLY", Constant(3, "CONST_INT"),
                                         Constant(4, "CONST_INT")))>>

\* C4, amended: in x + y * z the multiplication is folded first and the sum
\* takes it as its right operand: BinaryOp(+, x, BinaryOp(*, y, z)), with
\* each operation on two constants replaced by its value -- so 2 + 3 * 4
\* folds to the constant 14, never to 20 and never to a tree with + below *.
C4_ProductFoldedBeforeSum ==
    \A t \in Invocations :
        (Folded(t) /\ IsSumOfProduct(input[t]))
        => LET x == Leaf(input[t][1])
               y == Leaf(input[t][3])
               z == Leaf(input[t][5])
               product == FoldedPair("BINARY_MULTIPLY", y, z,
                              IF y.type = "CONSTANT" /\ z.type = "CONSTANT"
                              THEN y.mValue * z.mValue ELSE 0)
               sum == FoldedPair("BINARY_PLUS", x, product,
                          IF x.type = "CONSTANT" /\ product.type = "CONSTANT"
                          THEN x.mValue + product.mValue ELSE 0)
           IN  /\ lists[root[t]] = <<sum>>
               /\ input[t] = TwoPlusThreeTimesFour
                  => lists[root[t]] = <<Constant(14, "CONST_INT")>>

\* 2 + 3 * 4 has been folded to the constant 14
C4_FoldedToFourteen ==
    /\ Folded(1)
    /\ input[1] = TwoPlusThreeTimesFour
    /\ lists[root[1]] = <<Constant(14, "CONST_INT")>>

IsAssignmentChain(tokens) ==
    /\ Len(tokens) >= 3
    /\ Len(tokens) % 2 = 1
    /\ \A i \in 1..Len(tokens) :
          IF i % 2 = 1 THEN tokens[i].type \in {"IDENTIFIER", "CONSTANT"}
          ELSE tokens[i].type = "OPERATOR" /\ tokens[i].mOperator \in AssignOperators

RECURSIVE RightNested(_)
RightNested(tokens) ==
    IF Len(tokens) = 1 THEN Leaf(tokens[1])
    ELSE BinaryOperationToken(tokens[2].mOperator, Leaf(tokens[1]),
                              RightNested(SubSeq(tokens, 3, Len(tokens))))

\* C5: a chain s1 = s2 = ... = sn of assignment operators folds into the
\* right-nested tree Assign(s1, Assign(s2, ... sn)); a = b = c folds to
\* Assign(a, Assign(b, c)).
C5_AssignmentRightAssociative ==
    \A t \in Invocations :
        (Folded(t) /\ IsAssignmentChain(input[t]))
        => lists[root[t]] = <<RightNested(input[t])>>

\* p1 = p2 = p3 has been folded to Assign(p1, Assign(p2, p3))
C5_ChainOfThreeFolded ==
    /\ Folded(1)
    /\ input[1] = <<Identifier("p1"), Op("ASSIGN"), Identifier("p2"), Op("ASSIGN"),
                    Identifier("p3")>>
    /\ lists[root[1]] =
          <<BinaryOperationToken("ASSIGN", Leaf(Identifier("p1")),
                BinaryOperationToken("ASSIGN", Leaf(Identifier("p2")),
                                     Leaf(Identifier("p3"))))>>

\* The iteration of binary folding about to run meets a division whose
\* neighbours are both constants, the right one zero
MeetsDivisionByZero(tokens) ==
    LET best == BestOperator(tokens)
    IN  /\ best.error = ""
        /\ best.bestPosition # 0
        /\ IsOp(At(tokens, best.bestPosition), "BINARY_DIVIDE")
        /\ At(tokens, best.bestPosition - 1).type = "CONSTANT"
        /\ At(tokens, best.bestPosition + 1).type = "CONSTANT"
        /\ At(tokens, best.bestPosition + 1).mValue = 0

DivisionPosition(tokens) == BestOperator(tokens).bestPosition

\* C6: when binary folding meets a division of a constant by the constant
\* zero, the three tokens are replaced by one constant of value 0 and the
\* pass does not fail, whatever the left value.
C6_DivisionByZeroFoldsToZero ==
    [][\A t \in Invocations :
          (pc[t] = "binary" /\ MeetsDivisionByZero(lists[Unit(t)])
             /\ (pc'[t] # pc[t] \/ lists'[Unit(t)] # lists[Unit(t)]))
          => LET tokens == lists[Unit(t)]
                 at == DivisionPosition(tokens)
                 after == lists'[Unit(t)]
             IN  /\ pc'[t] = "binary"
                 /\ Len(after) = Len(tokens) - 2
                 /\ At(after, at - 1).type = "CONSTANT"
                 /\ At(after, at - 1).mValue = 0
                 /\ \A j \in 0..(at - 2) : At(after, j) = At(tokens, j)
                 /\ \A j \in at..(Len(after) - 1) : At(after, j) = At(tokens, j + 2)]_vars

\* 2 / 0 has been folded to the constant 0
C6_TwoByZeroFolded ==
    /\ Folded(1)
    /\ input[1] = <<Constant(2, "CONST_INT"), Op("BINARY_DIVIDE"),
                    Constant(0, "CONST_INT")>>
    /\ lists[root[1]] = <<Constant(0, "CONST_INT")>>

(***************************************************************************)
(* Calls, casts and memory accesses: an optional head (a function name or  *)
(* a type name), one group of comma-separated items, an optional tail.     *)
(***************************************************************************)
MaxItems == 2

CallHeads == {"none", "f", "g", "h", "base_main", "int32"}

HeadTokens(head) ==
    CASE head = "none"  -> <<>>
      [] head = "int32" -> <<VarType("INT_32")>>
      [] OTHER          -> <<Identifier(head)>>

GroupKinds == {"PARENTHESIS", "BRACKET"}

OpenGroup(kind) ==
    IF kind = "PARENTHESIS" THEN Op("PARENTHESIS_LEFT") ELSE Op("BRACKET_LEFT")

CloseGroup(kind) ==
    IF kind = "PARENTHESIS" THEN Op("PARENTHESIS_RIGHT") ELSE Op("BRACKET_RIGHT")

CallItems == {"empty", "a", "2", "v", "a b"}

ItemTokens(item) ==
    CASE item = "empty" -> <<>>
      [] item = "a"     -> <<Identifier("a")>>
      [] item = "2"     -> <<Constant(2, "CONST_INT")>>
      [] item = "v"     -> <<Identifier("v")>>
      [] item = "a b"   -> <<Identifier("a"), Identifier("b")>>

RECURSIVE JoinItems(_)
JoinItems(items) ==
    IF Len(items) = 0 THEN <<>>
    ELSE IF Len(items) = 1 THEN ItemTokens(items[1])
    ELSE ItemTokens(items[1]) \o <<Op("COMMA_SEPARATOR")>> \o JoinItems(Tail(items))

CallTails == {"none", "+ a", "a", ", a"}

TailTokens(tail) ==
    CASE tail = "none" -> <<>>
      [] tail = "+ a"  -> <<Op("BINARY_PLUS"), Identifier("a")>>
      [] tail = "a"    -> <<Identifier("a")>>
      [] tail = ", a"  -> <<Op("COMMA_SEPARATOR"), Identifier("a")>>

CallInputs ==
    {HeadTokens(head) \o <<OpenGroup(kind)>> \o JoinItems(items)
         \o <<CloseGroup(kind)>> \o TailTokens(tail) :
        head \in CallHeads, kind \in GroupKinds,
        items \in Strings(CallItems, MaxItems), tail \in CallTails}

InitCall == \E tokens \in CallInputs : InitWith(tokens, NULL)

SpecCall == InitCall /\ [][Next]_vars

\* processTokens of invocation t has returned without an error
Returned(t) == pc[t] = "done"

StatementCount(tokens) == Cardinality({i \in 1..Len(tokens) : isStatement(tokens[i])})

\* C2 as stated: whenever processTokens returns without an error, the
\* top-level token list holds exactly one statement token.
C2_ExactlyOneStatement ==
    \A t \in Invocations : Returned(t) => StatementCount(lists[root[t]]) = 1

\* The statement tokens reachable from a token: the token itself, its
\* sub-nodes, and the tokens of the lists it holds
RECURSIVE ReachableFromToken(_, _)
RECURSIVE ReachableFromList(_, _)
ReachableFromToken(ls, tok) ==
    (IF isStatement(tok) THEN {tok} ELSE {}) \cup
    CASE tok.type = "PARENTHESIS" -> ReachableFromList(ls, tok.mContent)
      [] tok.type = "COMMA_SEPARATED" ->
            UNION {ReachableFromList(ls, tok.mContent[j]) : j \in 1..Len(tok.mContent)}
      [] tok.type = "FUNCTION" -> ReachableFromToken(ls, tok.mParenthesis)
      [] tok.type = "MEMORY_ACCESS" -> ReachableFromToken(ls, tok.mAddress)
      [] tok.type \in {"UNARY_OPERATION", "VALUE_CAST"} ->
            ReachableFromToken(ls, tok.mArgument)
      [] tok.type = "BINARY_OPERATION" ->
            ReachableFromToken(ls, tok.mLeft) \cup ReachableFromToken(ls, tok.mRight)
      [] OTHER -> {}

ReachableFromList(ls, id) ==
    UNION {ReachableFromToken(ls, ls[id][i]) : i \in 1..Len(ls[id])}

\* C3 as stated: whenever processTokens returns without an error, every
\* statement token reachable in the resulting tree has a non-null data type.
C3_EveryStatementTyped ==
    \A t \in Invocations :
        Returned(t) => \A tok \in ReachableFromList(lists, root[t]) : tok.mDataType # NULL

\* The places of a unit where a type name stands before a bracket group
BracketAccesses(tokens) ==
    {i \in 0..(Len(tokens) - 2) :
        At(tokens, i).type = "VARTYPE" /\ IsGroup(At(tokens, i + 1), "BRACKET")}

OneStatement(content) == Len(content) = 1 /\ isStatement(content[1])

MemoryErrors == {"Expected exactly one token inside brackets",
                 "Expected statement token inside brackets"}

\* C10: the memory-access pass turns a type name followed by a bracket into
\* a memory access only when the bracket holds exactly one statement token
\* (which becomes the address); a bracket holding anything else -- a comma
\* list as in int32[a, b], nothing, two tokens -- makes the pass fail.
C10_BracketHoldsOneStatement ==
    [][\A t \in Invocations :
          (pc[t] = "memory" /\ pc'[t] # "memory" /\ lists[Unit(t)] # <<>>)
          => LET tokens == lists[Unit(t)]
                 accesses == BracketAccesses(tokens)
                 Content(i) == lists[At(tokens, i + 1).mContent]
                 after == lists'[Unit(t)]
             IN  IF \A i \in accesses : OneStatement(Content(i))
                 THEN /\ pc'[t] = "casts"
                      /\ Len(after) = Len(tokens) - Cardinality(accesses)
                      /\ \A i \in accesses :
                            At(after, i - Cardinality({j \in accesses : j < i}))
                               = MemoryAccessToken(At(tokens, i).mDataType, Content(i)[1])
                      /\ \A j \in 0..(Len(after) - 1) :
                            At(after, j).type = "MEMORY_ACCESS"
                            => \E i \in accesses :
                                  j = i - Cardinality({m \in accesses : m < i})
                 ELSE /\ pc'[t] = "error"
                      /\ error'[t] \in MemoryErrors]_vars

\* int32[a, v] has been rejected: the bracket holds a comma list
C10_CommaInBracketRejected ==
    /\ pc[1] = "error"
    /\ error[1] = "Expected statement token inside brackets"
    /\ input[1] = <<VarType("INT_32"), Op("BRACKET_LEFT"), Identifier("a"),
                    Op("COMMA_SEPARATOR"), Identifier("v"), Op("BRACKET_RIGHT")>>

(***************************************************************************)
(* C11, C12: the tree built by processParentheses and                      *)
(* processCommaSeparators, read back as the flat token list it came from.  *)
(***************************************************************************)
RECURSIVE UnparseFrom(_, _, _)
RECURSIVE UnparseToken(_, _)
RECURSIVE UnparseItems(_, _, _)

\* tokens[i..] written flat: a group as its delimiters around its content,
\* a CommaSeparatedList as its items joined by commas
UnparseFrom(ls, tokens, i) ==
    IF i > Len(tokens) THEN <<>>
    ELSE UnparseToken(ls, tokens[i]) \o UnparseFrom(ls, tokens, i + 1)

UnparseToken(ls, tok) ==
    IF tok.type = "PARENTHESIS"
    THEN <<OpenGroup(tok.mParenthesisType)>> \o UnparseFrom(ls, ls[tok.mContent], 1)
             \o <<CloseGroup(tok.mParenthesisType)>>
    ELSE IF tok.type = "COMMA_SEPARATED" THEN UnparseItems(ls, tok.mContent, 1)
    ELSE <<tok>>

UnparseItems(ls, items, j) ==
    IF j > Len(items) THEN <<>>
    ELSE (IF j > 1 THEN <<Op("COMMA_SEPARATOR")>> ELSE <<>>)
             \o UnparseFrom(ls, ls[items[j]], 1) \o UnparseItems(ls, items, j + 1)

Unparse(ls, id) == UnparseFrom(ls, ls[id], 1)

\* The comma separators of a flat token list that lie inside none of its
\* groups, counted from position i at nesting depth depth
RECURSIVE CommasAtDepth(_, _, _)
CommasAtDepth(tokens, i, depth) ==
    IF i > Len(tokens) THEN 0
    ELSE IF IsDelimiter(tokens[i])
    THEN CommasAtDepth(tokens, i + 1,
             IF tokens[i].mOperator \in {"PARENTHESIS_LEFT", "BRACKET_LEFT"}
             THEN depth + 1 ELSE depth - 1)
    ELSE (IF IsComma(tokens[i]) /\ depth = 0 THEN 1 ELSE 0)
             + CommasAtDepth(tokens, i + 1, depth)

TopLevelCommas(tokens) == CommasAtDepth(tokens, 1, 0)

\* The items a group holds, counted as the code counts the parameters of a
\* call: none in an empty content, the items of a CommaSeparatedList, or the
\* content as the one item
GroupItemCount(ls, group) ==
    IF ls[group.mContent] = <<>> THEN 0
    ELSE IF ls[group.mContent][1].type = "COMMA_SEPARATED"
    THEN Len(ls[group.mContent][1].mContent)
    ELSE 1

\* Where the group tokens of the tree are: <<list, position>> (every list
\* of the arena is part of the tree)
GroupPositions(ls) ==
    UNION {{<<id, i>> : i \in {j \in 1..Len(ls[id]) : ls[id][j].type = "PARENTHESIS"}} :
              id \in 1..Len(ls)}

\* No delimiter and no comma operator is left anywhere, and a
\* CommaSeparatedList is the only token of its list
ProperlyNested(ls) ==
    \A id \in 1..Len(ls) : \A i \in 1..Len(ls[id]) :
        /\ ~IsDelimiter(ls[id][i])
        /\ ~IsComma(ls[id][i])
        /\ ls[id][i].type = "COMMA_SEPARATED" => Len(ls[id]) = 1

\* Invocation t has finished processCommaSeparators and nothing after it
AfterStructuring(t) == pc[t] = "variables" /\ k[t] = 0

CommaErrors == {"Wrong token index",
                "Token list must only contain the CommaSeparatedListToken afterwards"}

\* C11 as stated: for a properly matched input the structural passes succeed
\* and leave a properly nested tree in which every group, the empty one
\* included, holds one item more than there are commas directly inside it.
C11_EveryGroupHoldsCommasPlusOne ==
    \A t \in Invocations :
        (AfterStructuring(t) /\ ProperlyMatched(input[t]))
        => /\ ProperlyNested(lists)
           /\ \A g \in GroupPositions(lists) :
                  GroupItemCount(lists, lists[g[1]][g[2]])
                      = TopLevelCommas(Unparse(lists, lists[g[1]][g[2]].mContent)) + 1

\* C11, amended: a properly matched input never fails in the structural
\* passes; after them the tree is properly nested and reads back as the
\* input, every group with a non-empty content holds one item more than
\* there are commas directly inside it, and an empty group holds no item.
C11_NonEmptyGroupsHoldCommasPlusOne ==
    \A t \in Invocations :
        /\ (pc[t] = "error" /\ ProperlyMatched(input[t]))
           => error[t] \notin (StructuralErrors \cup CommaErrors)
        /\ (AfterStructuring(t) /\ ProperlyMatched(input[t]))
           => /\ ProperlyNested(lists)
              /\ Unparse(lists, root[t]) = input[t]
              /\ \A g \in GroupPositions(lists) :
                     GroupItemCount(lists, lists[g[1]][g[2]])
                         = IF lists[lists[g[1]][g[2]].mContent] = <<>> THEN 0
                           ELSE TopLevelCommas(
                                    Unparse(lists, lists[g[1]][g[2]].mContent)) + 1

\* "( , p3 )" has been structured: one group, holding two items
C11_GroupOfTwoItems ==
    /\ AfterStructuring(1)
    /\ input[1] = <<Op("PARENTHESIS_LEFT"), Op("COMMA_SEPARATOR"), Identifier("p3"),
                    Op("PARENTHESIS_RIGHT")>>
    /\ \E g \in GroupPositions(lists) : GroupItemCount(lists, lists[g[1]][g[2]]) = 2

\* The token lists items[j..] one after the other, a comma between two
RECURSIVE JoinedByCommas(_, _, _)
JoinedByCommas(ls, items, j) ==
    IF j > Len(items) THEN <<>>
    ELSE (IF j > 1 THEN <<Op("COMMA_SEPARATOR")>> ELSE <<>>)
             \o ls[items[j]] \o JoinedByCommas(ls, items, j + 1)

CommaCount(tokens) == Cardinality({i \in 1..Len(tokens) : IsComma(tokens[i])})

\* What comma splitting made of the unit that held tokens: after is the
\* unit, ls the arena, afterwards
SplitAtCommas(tokens, after, ls) ==
    /\ Len(after) = 1
    /\ after[1].type = "COMMA_SEPARATED"
    /\ Len(after[1].mContent) = CommaCount(tokens) + 1
    /\ JoinedByCommas(ls, after[1].mContent, 1) = tokens
    /\ \A j \in 1..Len(after[1].mContent) : CommaCount(ls[after[1].mContent[j]]) = 0

\* C12: processCommaSeparators never fails; a unit of the worklist that held
\* n >= 1 commas then holds one token, a CommaSeparatedList of n+1 items
\* that hold no comma and, joined by commas, are the unit's tokens as they
\* were; a unit without a comma is left as it was.
C12_CommaSplitKeepsTokens ==
    [][\A t \in Invocations :
          (pc[t] = "commas" /\ pc'[t] # "commas")
          => /\ pc'[t] = "variables"
             /\ \A u \in 1..Len(linearTokenLists) :
                    IF CommaCount(lists[linearTokenLists[u]]) >= 1
                    THEN SplitAtCommas(lists[linearTokenLists[u]],
                                       lists'[linearTokenLists[u]], lists')
                    ELSE lists'[linearTokenLists[u]] = lists[linearTokenLists[u]]]_vars

\* "p1 , , p4" has been split into three items, the middle one empty
C12_ThreeItemsSplit ==
    /\ AfterStructuring(1)
    /\ input[1] = <<Identifier("p1"), Op("COMMA_SEPARATOR"), Op("COMMA_SEPARATOR"),
                    Identifier("p4")>>
    /\ lists[1] = <<CommaSeparatedListToken(<<2, 3, 4>>)>>
    /\ lists[2] = <<Identifier("p1")>>
    /\ lists[3] = <<>>
    /\ lists[4] = <<Identifier("p4")>>

(***************************************************************************)
(* Inputs that name defines: processTokens on short lists over the defines *)
(* of the context, a variable and an operator.                             *)
(***************************************************************************)
MaxDefineLen == 3

DefineSymbols == {"ONE", "PAIR", "EMPTY", "LOOP", "a", "+"}

DefineToken(sym) == IF sym = "+" THEN Op("BINARY_PLUS") ELSE Identifier(sym)

DefineInputs ==
    {[i \in 1..Len(w) |-> DefineToken(w[i])] : w \in Strings(DefineSymbols, MaxDefineLen)}

InitDefine == \E tokens \in DefineInputs : InitWith(tokens, NULL)

SpecDefine == InitDefine /\ [][Next]_vars

\* The length of the longest define content of the table
LongestDefine ==
    CHOOSE n \in 0..MaxTokens :
        /\ \E d \in DOMAIN GlobalDefines : Len(GlobalDefines[d]) = n
        /\ \A d \in DOMAIN GlobalDefines : Len(GlobalDefines[d]) <= n

\* C13: the work of processTokens is bounded by the token count.  A pass
\* over the input that substitutes each of its tokens at most once never
\* makes the list longer than the input's length times the longest define
\* content, whatever the defines' contents name.
C13_WorkBoundedByTokenCount ==
    \A t \in Invocations :
        root[t] # 0 => Len(lists[root[t]]) <= Len(input[t]) * LongestDefine

(***************************************************************************)
(* C16: define substitution as one pass over the original tokens.          *)
(***************************************************************************)
\* tokens[i..] with every identifier that names a define replaced by the
\* define's content, the content taken as it is
RECURSIVE ExpandOnce(_, _)
ExpandOnce(tokens, i) ==
    IF i > Len(tokens) THEN <<>>
    ELSE (IF IsDefine(tokens[i]) THEN GlobalDefines[tokens[i].mIdentifier]
          ELSE <<tokens[i]>>) \o ExpandOnce(tokens, i + 1)

\* C16: when processDefines has finished, the list is the input with each of
\* its define identifiers substituted once and nothing spliced in expanded
\* again.
C16_SinglePassSubstitution ==
    \A t \in Invocations :
        (pc[t] = "parentheses") => lists[root[t]] = ExpandOnce(input[t], 1)

(***************************************************************************)
(* C14: what a failed check leaves behind.                                 *)
(***************************************************************************)
PerUnitPasses == {"variables", "functions", "memory", "casts", "identifiers",
                  "postfix", "prefix", "binary"}

\* No token of the list was made by a per-unit pass
Untouched(tokens) ==
    \A i \in 1..Len(tokens) :
        tokens[i].type \notin {"VARIABLE", "FUNCTION", "MEMORY_ACCESS", "VALUE_CAST",
                               "UNARY_OPERATION", "BINARY_OPERATION"}

\* No token of the arena has been given a data type by type assignment
NothingTyped(ls) ==
    \A id \in 1..Len(ls) : \A i \in 1..Len(ls[id]) :
        ls[id][i].type \in {"PARENTHESIS", "VARIABLE", "FUNCTION", "UNARY_OPERATION",
                            "BINARY_OPERATION"}
        => ls[id][i].mDataType = NULL

\* The step of invocation t on which a check fails
Fails(t) == pc[t] # "error" /\ pc'[t] = "error"

\* C14: an invocation holds an error message exactly when it has stopped in
\* "error"; the step on which a check fails is the only one that sets the
\* message, it leaves the worklist position where it is, and when it is the
\* step of a per-unit pass every later unit of the worklist is still as the
\* structural passes left it; unless the check failed in type assignment no
\* token has been typed; and after the failure the invocation takes no step:
\* no pass runs, no unit and no token changes, the message stays.
C14_FailFast ==
    /\ [](\A t \in Invocations : (error[t] # "") <=> (pc[t] = "error"))
    /\ [][\A t \in Invocations :
             /\ pc[t] = "error"
                => /\ pc'[t] = "error"
                   /\ UNCHANGED <<lists, linearTokenLists, k, error, localVariables,
                                  functionVariables>>
             /\ Fails(t)
                => /\ k'[t] = k[t]
                   /\ pc[t] # "types" => NothingTyped(lists')
                   /\ pc[t] \in PerUnitPasses
                      => \A u \in (k[t] + 2)..Len(linearTokenLists) :
                             /\ lists'[linearTokenLists[u]] = lists[linearTokenLists[u]]
                             /\ Untouched(lists[linearTokenLists[u]])]_vars

\* "p1 ( ) ," has failed in the function-call pass on its first item, with
\* the second item still waiting in the worklist
C14_FailedBeforeLastUnit ==
    /\ pc[1] = "error"
    /\ error[1] = "Unknown function name"
    /\ input[1] = <<Identifier("p1"), Op("PARENTHESIS_LEFT"), Op("PARENTHESIS_RIGHT"),
                    Op("COMMA_SEPARATOR")>>
    /\ k[1] + 1 < Len(linearTokenLists)

(***************************************************************************)
(* Declarations: processTokens on statements that declare local variables, *)
(* in a function that may hold variables already, visible or not.          *)
(***************************************************************************)
MaxDecls == 2

LocalVariable(name, dataType) == [name |-> name, dataType |-> dataType, scope |-> "local"]

\* <<mContext.mLocalVariables, the variables of mContext.mFunction>>: every
\* visible variable is one of the function's, and the function may hold
\* variables of scopes that have been left
DeclContexts ==
    {<< <<>>, <<>> >>,
     << <<>>, <<LocalVariable("x", "INT_32")>> >>,
     << <<>>, <<LocalVariable("x", "INT_32"), LocalVariable("y", "INT_32")>> >>,
     << <<LocalVariable("x", "INT_32")>>, <<LocalVariable("x", "INT_32")>> >>,
     << <<LocalVariable("x", "INT_32")>>,
        <<LocalVariable("x", "INT_32"), LocalVariable("y", "INT_32")>> >>}

DeclTypes == {"UINT_8", "INT_32", "VOID"}

DeclNames == {"x", "y"}

Declarations == {<<VarType(dt), Identifier(name)>> : dt \in DeclTypes, name \in DeclNames}

DeclSeparators == {<<>>, <<Op("COMMA_SEPARATOR")>>}

RECURSIVE DeclInputsOf(_)
DeclInputsOf(n) ==
    IF n = 0 THEN {<<>>}
    ELSE IF n = 1 THEN Declarations
    ELSE {head \o sep \o d : head \in DeclInputsOf(n - 1), sep \in DeclSeparators,
                            d \in Declarations}

DeclInputs == UNION {DeclInputsOf(n) : n \in 0..MaxDecls}

\* One call processTokens(tokens, line, nullptr) in a compile context
InitDecl ==
    \E tokens \in DeclInputs, context \in DeclContexts :
        /\ lists = <<tokens>>
        /\ root = [t \in Invocations |-> IF t = 1 THEN 1 ELSE 0]
        /\ input = [t \in Invocations |-> IF t = 1 THEN tokens ELSE <<>>]
        /\ hint = [t \in Invocations |-> NULL]
        /\ linearTokenLists = <<>>
        /\ parenthesisStack = <<>>
        /\ commaPositions = <<>>
        /\ k = [t \in Invocations |-> 0]
        /\ idx = [t \in Invocations |-> 0]
        /\ pc = [t \in Invocations |-> IF t = 1 THEN "defines" ELSE "idle"]
        /\ error = [t \in Invocations |-> ""]
        /\ ub = [t \in Invocations |-> FALSE]
        /\ localVariables = context[1]
        /\ functionVariables = context[2]
        /\ query = [fn |-> "none"]
        /\ answer = [ready |-> FALSE]

SpecDecl == InitDecl /\ [][Next]_vars

\* The positions (0-based) of the unit at which a type name is followed by
\* an identifier
DeclarationsIn(tokens) ==
    {i \in 0..(Len(tokens) - 2) :
        At(tokens, i).type = "VARTYPE" /\ At(tokens, i + 1).type = "IDENTIFIER"}

NameCount(variables, name) ==
    Cardinality({j \in 1..Len(variables) : variables[j].name = name})

\* The variable-declaration pass of invocation t has run on its unit
Declared(t) == pc[t] = "variables" /\ pc'[t] # "variables"

\* C15: the visible local variables never hold two variables of one name
\* nor a void variable; a unit that declares a void variable, or declares a
\* name that is visible when the pass starts, fails in the pass, and the
\* name is then still held once.
C15_VisibleNamesUnique ==
    /\ [](\A j \in 1..Len(localVariables) :
             /\ NameCount(localVariables, localVariables[j].name) = 1
             /\ localVariables[j].dataType # "VOID")
    /\ [][\A t \in Invocations : Declared(t) =>
             \A i \in DeclarationsIn(lists[Unit(t)]) :
                 /\ At(lists[Unit(t)], i).mDataType = "VOID" => pc'[t] = "error"
                 /\ NameCount(localVariables, At(lists[Unit(t)], i + 1).mIdentifier) = 1
                    => /\ pc'[t] = "error"
                       /\ NameCount(localVariables',
                                    At(lists[Unit(t)], i + 1).mIdentifier) = 1]_vars

\* "uint8 y , uint8 y" with x visible: the second declaration of y failed
C15_RedeclarationRejected ==
    /\ pc[1] = "error"
    /\ error[1] = "Variable name already used"
    /\ input[1] = <<VarType("UINT_8"), Identifier("y"), Op("COMMA_SEPARATOR"),
                    VarType("UINT_8"), Identifier("y")>>
    /\ NameCount(localVariables, "x") = 1
    /\ NameCount(localVariables, "y") = 1

\* The data types of the tokens of given type, in order
RECURSIVE TypesOf(_, _, _)
TypesOf(tokens, i, type) ==
    IF i > Len(tokens) THEN <<>>
    ELSE (IF tokens[i].type # type THEN <<>>
          ELSE IF type = "VARIABLE" THEN <<tokens[i].mVariable.dataType>>
          ELSE <<tokens[i].mDataType>>) \o TypesOf(tokens, i + 1, type)

\* C17: when the variable-declaration pass has collapsed the declarations
\* of a unit, each Variable token is bound to a variable of the declared
\* type, whatever the function held before.
C17_DeclaredTypeBound ==
    [][\A t \in Invocations :
          (Declared(t) /\ pc'[t] # "error"
             /\ \A i \in 1..Len(lists[Unit(t)]) :
                    lists[Unit(t)][i].type = "VARTYPE"
                    => (i < Len(lists[Unit(t)])
                        /\ lists[Unit(t)][i + 1].type = "IDENTIFIER"))
          => TypesOf(lists'[Unit(t)], 1, "VARIABLE")
                 = TypesOf(lists[Unit(t)], 1, "VARTYPE")]_vars

(***************************************************************************)
(* Operator inputs: short token lists over an identifier (the variable     *)
(* named after its position), a constant, the minus, an increment, a       *)
(* logical not and an assignment.                                          *)
(***************************************************************************)
MaxUnaryLen == 5

UnarySymbols == {"id", "2", "-", "++", "!", "="}

UnaryToken(sym, i) ==
    CASE sym = "id" -> Identifier(PositionNames[i])
      [] sym = "2"  -> Constant(2, "CONST_INT")
      [] sym = "-"  -> Op("BINARY_MINUS")
      [] sym = "++" -> Op("UNARY_INCREMENT")
      [] sym = "!"  -> Op("UNARY_NOT")
      [] sym = "="  -> Op("ASSIGN")

UnaryInputs ==
    {[i \in 1..Len(w) |-> UnaryToken(w[i], i)] : w \in Strings(UnarySymbols, MaxUnaryLen)}

InitUnary == \E tokens \in UnaryInputs : InitWith(tokens, NULL)

SpecUnary == InitUnary /\ [][Next]_vars

\* The global variable p<i> as a Variable token
PositionVariable(i) ==
    VariableToken([name |-> PositionNames[i], dataType |-> GlobalVariables[PositionNames[i]],
                   scope |-> "global"])

(***************************************************************************)
(* C18: the minus in the prefix loop.                                      *)
(***************************************************************************)
\* The positions (0-based) of the minus operators that stand right after a
\* statement token
MinusAfterStatement(tokens) ==
    {i \in 1..(Len(tokens) - 1) :
        IsOp(At(tokens, i), "BINARY_MINUS") /\ isStatement(At(tokens, i - 1))}

\* C18: the prefix loop folds no minus that stands right after a statement
\* token.  Whatever the outcome of the loop, the unit holds as many such
\* minus operators after it as before; and when the loop succeeds, each of
\* them still stands as an operator between what the loop makes of the
\* tokens before it and what it makes of the tokens after it.
C18_MinusAfterStatementStaysBinary ==
    [][\A t \in Invocations :
          (pc[t] = "prefix" /\ pc'[t] # "prefix")
          => /\ Cardinality(MinusAfterStatement(lists'[Unit(t)]))
                    = Cardinality(MinusAfterStatement(lists[Unit(t)]))
             /\ pc'[t] = "binary"
                => \A i \in MinusAfterStatement(lists[Unit(t)]) :
                       lists'[Unit(t)]
                           = processUnaryPrefix(SubSeq(lists[Unit(t)], 1, i)).tokens
                               \o <<Op("BINARY_MINUS")>>
                               \o processUnaryPrefix(
                                      SubSeq(lists[Unit(t)], i + 2,
                                             Len(lists[Unit(t)]))).tokens]_vars

\* "p1 - - p4": the second minus became a sign, the first stayed an operator
C18_SubtractionOfNegation ==
    /\ pc[1] = "binary"
    /\ input[1] = <<Identifier("p1"), Op("BINARY_MINUS"), Op("BINARY_MINUS"),
                    Identifier("p4")>>
    /\ lists[1] = <<PositionVariable(1), Op("BINARY_MINUS"),
                    UnaryOperationToken("BINARY_MINUS", PositionVariable(4))>>

(***************************************************************************)
(* C19: what the postfix loop leaves.                                      *)
(***************************************************************************)
\* The positions (0-based) of the increment and decrement operators that
\* stand right after a statement token
PostfixCandidates(tokens) ==
    {i \in 1..(Len(tokens) - 1) :
        /\ At(tokens, i).type = "OPERATOR"
        /\ At(tokens, i).mOperator \in {"UNARY_INCREMENT", "UNARY_DECREMENT"}
        /\ isStatement(At(tokens, i - 1))}

\* C19: when the postfix loop has run, no increment or decrement operator
\* of the unit stands right after a statement token.
C19_NoPostfixOperatorLeft ==
    \A t \in Invocations : pc[t] = "prefix" => PostfixCandidates(lists[Unit(t)]) = {}

(***************************************************************************)
(* C20: which operator a step of binary folding takes.                     *)
(***************************************************************************)
OperatorPositions(tokens) ==
    {i \in 0..(Len(tokens) - 1) : At(tokens, i).type = "OPERATOR"}

PriorityAt(tokens, i) == operatorPriorityLookup(At(tokens, i).mOperator)

\* The positions of the operators of the smallest priority value
LowestPriorityPositions(tokens) ==
    {i \in OperatorPositions(tokens) :
        \A j \in OperatorPositions(tokens) : PriorityAt(tokens, i) <= PriorityAt(tokens, j)}

\* The position the fold is to take: the rightmost of them for the
\* right-associative priorities 3 and 15, the leftmost for all others
ExpectedFoldPosition(tokens) ==
    CHOOSE i \in LowestPriorityPositions(tokens) :
        \A j \in LowestPriorityPositions(tokens) :
            IF PriorityAt(tokens, i) \in {3, 15} THEN j <= i ELSE i <= j

\* after is tokens with the operator at position p and its two neighbours
\* replaced by one token: the binary operation of the three, or a constant
\* when both neighbours are constants
FoldedAt(tokens, after, p) ==
    /\ Len(after) = Len(tokens) - 2
    /\ SubSeq(after, 1, p - 1) = SubSeq(tokens, 1, p - 1)
    /\ SubSeq(after, p + 1, Len(after)) = SubSeq(tokens, p + 3, Len(tokens))
    /\ \/ At(after, p - 1) = BinaryOperationToken(At(tokens, p).mOperator,
                                                  At(tokens, p - 1), At(tokens, p + 1))
       \/ /\ At(after, p - 1).type = "CONSTANT"
          /\ At(tokens, p - 1).type = "CONSTANT"
          /\ At(tokens, p + 1).type = "CONSTANT"

\* C20: every step of processBinaryOperations that folds, folds the operator
\* of the smallest priority value among the operators of the unit, the
\* leftmost of that priority when it is left-associative and the rightmost
\* when it is right-associative.
C20_LowestPriorityFoldedFirst ==
    [][\A t \in Invocations :
          (pc[t] = "binary" /\ lists'[Unit(t)] # lists[Unit(t)])
          => FoldedAt(lists[Unit(t)], lists'[Unit(t)],
                      ExpectedFoldPosition(lists[Unit(t)]))]_vars

\* "p1 - p3 - p5" has folded to BinaryOp(-, BinaryOp(-, p1, p3), p5)
C20_SubtractionLeftNested ==
    /\ pc[1] = "types"
    /\ input[1] = <<Identifier("p1"), Op("BINARY_MINUS"), Identifier("p3"),
                    Op("BINARY_MINUS"), Identifier("p5")>>
    /\ lists[1] = <<BinaryOperationToken("BINARY_MINUS",
                        BinaryOperationToken("BINARY_MINUS", PositionVariable(1),
                                             PositionVariable(3)),
                        PositionVariable(5))>>

(***************************************************************************)
(* Typed operations: one or two operands of different types joined by an   *)
(* assignment, an arithmetic operator, a comparison, "?" or ":", compiled  *)
(* with and without an expected result type.                               *)
(***************************************************************************)
MaxTypeOperands == 2

TypeOperands == {"a", "c", "v", "2", "g()", "(a==c)"}

TypeOperandTokens(sym) ==
    CASE sym = "2"      -> <<Constant(2, "CONST_INT")>>
      [] sym = "g()"    -> <<Identifier("g"), Op("PARENTHESIS_LEFT"),
                             Op("PARENTHESIS_RIGHT")>>
      [] sym = "(a==c)" -> <<Op("PARENTHESIS_LEFT"), Identifier("a"),
                             Op("COMPARE_EQUAL"), Identifier("c"),
                             Op("PARENTHESIS_RIGHT")>>
      [] OTHER          -> <<Identifier(sym)>>

TypeOperators == {"ASSIGN", "ASSIGN_PLUS", "BINARY_PLUS", "COMPARE_EQUAL",
                  "QUESTIONMARK", "COLON"}

TypeHints == {NULL, "UINT_32", "UINT_8"}

RECURSIVE TypedExpression(_, _)
TypedExpression(operands, ops) ==
    IF Len(operands) = 1 THEN TypeOperandTokens(operands[1])
    ELSE TypeOperandTokens(operands[1]) \o <<Op(ops[1])>>
             \o TypedExpression(Tail(operands), Tail(ops))

TypeInputs ==
    UNION {{TypedExpression(operands, ops) :
                operands \in [1..n -> TypeOperands],
                ops \in [1..(n - 1) -> TypeOperators]} :
           n \in 1..MaxTypeOperands}

InitType == \E tokens \in TypeInputs, rt \in TypeHints : InitWith(tokens, rt)

SpecType == InitType /\ [][Next]_vars

\* The unit of invocation t is one binary operation about to be typed
BinaryAtRoot(t) ==
    /\ pc[t] = "types"
    /\ Len(lists[root[t]]) = 1
    /\ lists[root[t]][1].type = "BINARY_OPERATION"

\* An operand without the value cast that type assignment may have put
\* around it (the inputs hold no explicit cast)
Uncast(tok) == IF tok.type = "VALUE_CAST" THEN tok.mArgument ELSE tok

\* The spec's classes of operators, from its own wording
IsSymmetricOperator(op) ==
    op \in {"BINARY_PLUS", "BINARY_MINUS", "BINARY_MULTIPLY", "BINARY_DIVIDE",
            "BINARY_MODULO", "BINARY_SHIFT_LEFT", "BINARY_SHIFT_RIGHT",
            "BINARY_AND", "BINARY_OR", "BINARY_XOR", "LOGICAL_AND", "LOGICAL_OR",
            "COLON"}

IsAssignmentOperator(op) ==
    op \in {"ASSIGN", "ASSIGN_PLUS", "ASSIGN_MINUS", "ASSIGN_MULTIPLY",
            "ASSIGN_DIVIDE", "ASSIGN_MODULO", "ASSIGN_SHIFT_LEFT",
            "ASSIGN_SHIFT_RIGHT", "ASSIGN_AND", "ASSIGN_OR", "ASSIGN_XOR"}

LeftHint(op, H) == IF IsSymmetricOperator(op) THEN H ELSE NULL

RightHint(op, H, leftType) ==
    IF IsAssignmentOperator(op) THEN leftType
    ELSE IF IsSymmetricOperator(op) THEN H
    ELSE NULL

\* A constant shows the hint it was typed with: it takes the hint as its
\* type, and the constant-integer type when there is none
ShowsHint(operand, h) ==
    operand.type = "CONSTANT"
    => operand.mDataType = (IF h = NULL THEN "CONST_INT" ELSE h)

TypedWith(ls, operand, h) == assignStatementDataType(ls, operand, h).token

HintsFollowOperator(ls, before, after, H) ==
    LET op == before.mOperator
        left == Uncast(after.mLeft)
        right == Uncast(after.mRight)
    IN  /\ left = TypedWith(ls, before.mLeft, LeftHint(op, H))
        /\ ShowsHint(left, LeftHint(op, H))
        /\ right = TypedWith(ls, before.mRight, RightHint(op, H, left.mDataType))
        /\ ShowsHint(right, RightHint(op, H, left.mDataType))

\* C21: when type assignment of a binary operation with expected type H
\* succeeds, its left operand is the operand typed with H under a symmetric
\* operator and with no hint otherwise, and its right operand is the operand
\* typed with the left operand's resolved type under an assignment, with H
\* under a symmetric operator, and with no hint under a comparison or "?".
C21_HintsFollowOperatorKind ==
    [][\A t \in Invocations :
          (BinaryAtRoot(t) /\ pc'[t] = "done")
          => HintsFollowOperator(lists, lists[root[t]][1], lists'[root[t]][1],
                                 hint[t])]_vars

\* "a = 2" compiled with expected type u8: the constant is typed s32, the
\* type of a, not u8
C21_AssignedConstantTakesLeftType ==
    /\ pc[1] = "done"
    /\ hint[1] = "UINT_8"
    /\ input[1] = <<Identifier("a"), Op("ASSIGN"), Constant(2, "CONST_INT")>>
    /\ lists[1][1].type = "BINARY_OPERATION"
    /\ lists[1][1].mRight = Constant(2, "INT_32")

\* The types the operands of the binary operation resolve to: the left one
\* typed with no hint, the right one with the left one's type
AssignmentLeftType(ls, token) == TypedWith(ls, token.mLeft, NULL).mDataType

AssignmentRightType(ls, token) ==
    TypedWith(ls, token.mRight, AssignmentLeftType(ls, token)).mDataType

\* The eight fixed-width integer types of the signature table
SignatureTableTypes == {"INT_8", "UINT_8", "INT_16", "UINT_16",
                        "INT_32", "UINT_32", "INT_64", "UINT_64"}

AssignmentTypable(L, R) ==
    L \in SignatureTableTypes /\ getImplicitCastPriority(R, L) # CANNOT_CAST

AssignmentTyped(t, token, L, R) ==
    /\ \A op \in AssignOperators :
          getBestSignature(op, L, R) = getBestSignature(token.mOperator, L, R)
    /\ IF AssignmentTypable(L, R)
       THEN /\ getBestSignature(token.mOperator, L, R).signature.mLeft = L
            /\ pc'[t] = "done"
            /\ lists'[root[t]][1].mDataType = L
            /\ lists'[root[t]][1].mLeft.mDataType = L
            /\ lists'[root[t]][1].mLeft.type # "VALUE_CAST"
       ELSE /\ pc'[t] = "error"
            /\ error'[t] = "Can not implicitly cast between types"

\* C22: type assignment of an assignment whose operands are typed gives the
\* node the left operand's resolved type, the chosen signature having that
\* type as left slot, when that type is one of the eight fixed-width integer
\* types and the right operand can be cast to it; otherwise it fails with the
\* implicit-cast error.  Every assignment operator chooses alike.
C22_AssignmentTakesLeftType ==
    [][\A t \in Invocations :
          (/\ BinaryAtRoot(t)
           /\ pc'[t] # "types"
           /\ lists[root[t]][1].mOperator \in AssignOperators)
          => AssignmentTyped(t, lists[root[t]][1],
                             AssignmentLeftType(lists, lists[root[t]][1]),
                             AssignmentRightType(lists, lists[root[t]][1]))]_vars

\* "2 = a" has failed: the left side is a constant integer
C22_ConstantLeftSideRejected ==
    /\ pc[1] = "error"
    /\ error[1] = "Can not implicitly cast between types"
    /\ input[1] = <<Constant(2, "CONST_INT"), Op("ASSIGN"), Identifier("a")>>
    /\ lists[1][1].type = "BINARY_OPERATION"

\* The operands of a binary operation as type assignment resolves them
ResolvedLeft(ls, token, H) == TypedWith(ls, token.mLeft, LeftHint(token.mOperator, H))

ResolvedRight(ls, token, H) ==
    TypedWith(ls, token.mRight,
              RightHint(token.mOperator, H, ResolvedLeft(ls, token, H).mDataType))

\* An operand after type assignment: inside a value cast to the slot type
\* exactly when its byte width is not the slot's
WrappedByWidth(after, operand, slot) ==
    IF TypeBytes(operand.mDataType) # TypeBytes(slot)
    THEN after = ValueCastToken(slot, operand)
    ELSE after = operand

OperandsWrappedByWidth(after, left, right, signature) ==
    /\ WrappedByWidth(after.mLeft, left, signature.mLeft)
    /\ WrappedByWidth(after.mRight, right, signature.mRight)

BothIntegerClass(left, right) ==
    TypeClass(left.mDataType) = "INTEGER" /\ TypeClass(right.mDataType) = "INTEGER"

CastsFollowWidth(before, after, left, right) ==
    (before.mOperator # "QUESTIONMARK" /\ BothIntegerClass(left, right))
    => OperandsWrappedByWidth(after, left, right,
           getBestSignature(before.mOperator, left.mDataType,
                            right.mDataType).signature)

\* C23: after type assignment of a binary operation other than "?" whose
\* operands are both of integer class, the left operand is inside a value
\* cast to the left slot of the chosen signature exactly when its byte width
\* differs from that slot's, and the right operand likewise for the right
\* slot, each by its own width only; a difference of signedness alone adds
\* no cast.
C23_OperandsCastByWidth ==
    [][\A t \in Invocations :
          (BinaryAtRoot(t) /\ pc'[t] = "done")
          => CastsFollowWidth(lists[root[t]][1], lists'[root[t]][1],
                 ResolvedLeft(lists, lists[root[t]][1], hint[t]),
                 ResolvedRight(lists, lists[root[t]][1], hint[t]))]_vars

\* "c + 2" compiled with expected type u32: the signature is (u32, u32), the
\* u8 variable is inside a cast and the u32 constant is not
C23_OnlyNarrowOperandCast ==
    /\ pc[1] = "done"
    /\ hint[1] = "UINT_32"
    /\ input[1] = <<Identifier("c"), Op("BINARY_PLUS"), Constant(2, "CONST_INT")>>
    /\ lists[1][1].type = "BINARY_OPERATION"
    /\ lists[1][1].mDataType = "UINT_32"
    /\ lists[1][1].mLeft.type = "VALUE_CAST"
    /\ lists[1][1].mLeft.mDataType = "UINT_32"
    /\ lists[1][1].mRight = Constant(2, "UINT_32")

(***************************************************************************)
(* Down casts between fixed-width integer types.                           *)
(***************************************************************************)
IsDownCast(cast) ==
    /\ cast[1] \in FixedIntTypes
    /\ cast[2] \in FixedIntTypes
    /\ TypeBytes(cast[2]) < TypeBytes(cast[1])

\* The positive difference of the base-2 size classes
SizeDelta(cast) == SizeClass(cast[1]) - SizeClass(cast[2])

DroppedBytes(cast) == TypeBytes(cast[1]) - TypeBytes(cast[2])

StatedDownCastCost(cast) ==
    (IF TypeIsSigned(cast[1]) /\ ~TypeIsSigned(cast[2]) THEN 64 ELSE 48) + SizeDelta(cast)

\* C24 as stated: a down cast between fixed-width integer types costs
\* 0x30 + sizeDelta (0x40 + sizeDelta from signed to unsigned), so at least
\* 0x31, and of two down casts the one that drops more bytes never costs
\* less.
C24_DownCastCostGrowsWithDrop ==
    (answer.ready /\ IsDownCast(query.first))
    => /\ answer.first = StatedDownCastCost(query.first)
       /\ answer.first >= 49
       /\ (IsDownCast(query.second)
           /\ DroppedBytes(query.first) > DroppedBytes(query.second))
          => answer.first >= answer.second

(***************************************************************************)
(* Overload selection for calls of up to MaxArity arguments: every         *)
(* argument is an int32 or void, every registered overload takes int32     *)
(* parameters only or int64 parameters only, and one or two overloads are  *)
(* registered under the name, or none.                                     *)
(***************************************************************************)
MaxArity == 5

ArityArgTypes == {"INT_32", "VOID"}

ArityOverloads ==
    {Fn([i \in 1..n |-> type], "INT_32") : n \in 0..MaxArity, type \in {"INT_32", "INT_64"}}

ArityRegistries ==
    {<<>>} \cup {<<x>> : x \in ArityOverloads}
           \cup {<<x, y>> : x \in ArityOverloads, y \in ArityOverloads}

InitArity ==
    \E parameterTypes \in Strings(ArityArgTypes, MaxArity), functions \in ArityRegistries :
        InitHelper([fn |-> "selectOverload",
                    parameterTypes |-> parameterTypes, functions |-> functions])

SpecArity == InitArity /\ [][NextOverload]_vars

\* A candidate the call can bind: as many parameters as arguments, and
\* every argument castable to its parameter
Qualifies(arguments, candidate) ==
    /\ Len(candidate.params) = Len(arguments)
    /\ \A i \in 1..Len(arguments) :
          getImplicitCastPriority(arguments[i], candidate.params[i]) # CANNOT_CAST

\* C25: overload selection binds only a candidate with as many parameters as
\* the call has arguments, all of them castable, whatever the number of
\* parameters; when no candidate qualifies or none is registered it fails and
\* binds nothing.
C25_OnlyQualifyingOverloadBound ==
    answer.ready =>
        LET functions == query.functions
            arguments == query.parameterTypes
        IN  /\ answer.error = ""
               => /\ answer.function \in 1..Len(functions)
                  /\ Qualifies(arguments, functions[answer.function])
            /\ (\A i \in 1..Len(functions) : ~Qualifies(arguments, functions[i]))
               => (answer.error # "" /\ answer.function = 0)
            /\ functions = <<>> => answer.error = "Unknown function name"

\* Five arguments, the fifth void, against an overload of five int32
\* parameters: nothing is bound
C25_FifthArgumentDisqualifies ==
    /\ answer.ready
    /\ query.parameterTypes = <<"INT_32", "INT_32", "INT_32", "INT_32", "VOID">>
    /\ query.functions = <<Fn(<<"INT_32", "INT_32", "INT_32", "INT_32", "INT_32">>,
                              "INT_32")>>
    /\ answer.function = 0
    /\ answer.error = "No appropriate function overload found"

(***************************************************************************)
(* Base calls: "base.main(...)" inside main(int32).                        *)
(***************************************************************************)
\* The lists that hold the arguments of a call, one list per argument
ArgumentLists(ls, call) ==
    LET content == ls[call.mParenthesis.mContent]
    IN  IF content = <<>> THEN <<>>
        ELSE IF content[1].type = "COMMA_SEPARATED" THEN content[1].mContent
        ELSE <<call.mParenthesis.mContent>>

\* Every argument is one statement token
ArgumentsWellFormed(ls, call) ==
    \A j \in 1..Len(ArgumentLists(ls, call)) :
        /\ Len(ls[ArgumentLists(ls, call)[j]]) = 1
        /\ isStatement(ls[ArgumentLists(ls, call)[j]][1])

\* The arguments' resolved types, each argument typed with no hint
ArgumentTypes(ls, call) ==
    [j \in 1..Len(ArgumentLists(ls, call)) |->
        TypedWith(ls, ls[ArgumentLists(ls, call)[j]][1], NULL).mDataType]

\* The root of invocation t is one call "base.<F>" inside F, about to be typed
BaseCallAtRoot(t) ==
    /\ pc[t] = "types"
    /\ Len(lists[root[t]]) = 1
    /\ lists[root[t]][1].type = "FUNCTION"
    /\ StartsWithBase(lists[root[t]][1].mFunctionName)
    /\ BaseNames[lists[root[t]][1].mFunctionName] = CurrentFunction.name
    /\ ArgumentsWellFormed(lists, lists[root[t]][1])

SameSignature(types) ==
    /\ Len(types) = Len(CurrentFunction.params)
    /\ \A i \in 1..Len(types) : types[i] = CurrentFunction.params[i]

BaseCallErrors == {"Base function call has different parameter count",
                   "Base function call has different parameter"}

BaseCallTyped(t, types) ==
    IF SameSignature(types)
    THEN /\ pc'[t] = "done"
         /\ lists'[root[t]][1].mIsBaseCall
         /\ lists'[root[t]][1].mFunction = CurrentFunction
         /\ lists'[root[t]][1].mDataType = CurrentFunction.returnType
    ELSE /\ pc'[t] = "error"
         /\ error'[t] \in BaseCallErrors

\* C26: type assignment of a call "base.<F>" inside F tags it as a base call
\* bound to F, with F's return type, exactly when it has as many arguments
\* as F has parameters and every argument's type, resolved with no hint, is
\* the parameter's type itself; otherwise it fails with a base-call error,
\* also for an argument that could be cast, such as a constant.
C26_BaseCallNeedsIdenticalTypes ==
    [][\A t \in Invocations :
          (BaseCallAtRoot(t) /\ pc'[t] # "types")
          => BaseCallTyped(t, ArgumentTypes(lists, lists[root[t]][1]))]_vars

\* "base.main(2)" inside main(int32) has failed: the constant is not int32
C26_ConstantArgumentRejected ==
    /\ pc[1] = "error"
    /\ error[1] = "Base function call has different parameter"
    /\ input[1] = <<Identifier("base_main"), Op("PARENTHESIS_LEFT"),
                    Constant(2, "CONST_INT"), Op("PARENTHESIS_RIGHT")>>
    /\ lists[1][1].type = "FUNCTION"

(***************************************************************************)
(* Comma lists with an empty item.                                         *)
(***************************************************************************)
IsOpening(tok) == IsOp(tok, "PARENTHESIS_LEFT") \/ IsOp(tok, "BRACKET_LEFT")

IsClosing(tok) == IsOp(tok, "PARENTHESIS_RIGHT") \/ IsOp(tok, "BRACKET_RIGHT")

\* A comma that starts or ends its list, or follows another comma
MalformedCommaList(tokens) ==
    \E i \in 1..Len(tokens) :
        /\ IsComma(tokens[i])
        /\ \/ i = 1
           \/ i = Len(tokens)
           \/ IsOpening(tokens[i - 1])
           \/ IsComma(tokens[i + 1])
           \/ IsClosing(tokens[i + 1])

\* C27 as stated: no pass reads a token outside the bounds of its unit, and
\* processTokens never returns normally from a statement that holds a comma
\* list with an empty item.
C27_EmptyItemsRejectedInBounds ==
    \A t \in Invocations :
        /\ ~ub[t]
        /\ MalformedCommaList(input[t]) => pc[t] # "done"

(***************************************************************************)
(* Nested groups and comma lists: the sum "a + b", comma lists of sums,    *)
(* groups of such lists, comma lists of sums and such groups, and a group  *)
(* of those alone or with a sum before or after it.                        *)
(***************************************************************************)
MaxNestItems == 2

NestLeaf == <<Identifier("a"), Op("BINARY_PLUS"), Identifier("b")>>

NestGroup(content) ==
    <<Op("PARENTHESIS_LEFT")>> \o content \o <<Op("PARENTHESIS_RIGHT")>>

RECURSIVE JoinByCommas(_)
JoinByCommas(parts) ==
    IF Len(parts) = 1 THEN parts[1]
    ELSE parts[1] \o <<Op("COMMA_SEPARATOR")>> \o JoinByCommas(Tail(parts))

NestLists(elements) ==
    {JoinByCommas(w) : w \in UNION {[1..n -> elements] : n \in 1..MaxNestItems}}

NestInner == NestLists({NestLeaf})

NestOuter == NestLists({NestLeaf} \cup {NestGroup(s) : s \in NestInner})

NestInputs ==
    LET groups == {NestGroup(s) : s \in NestOuter}
    IN  groups \cup {JoinByCommas(<<g, NestLeaf>>) : g \in groups}
               \cup {JoinByCommas(<<NestLeaf, g>>) : g \in groups}

InitNest == \E tokens \in NestInputs : InitWith(tokens, NULL)

SpecNest == InitNest /\ [][Next]_vars

InWorklist(id) == \E i \in 1..Len(linearTokenLists) : linearTokenLists[i] = id

WorklistPosition(id) == CHOOSE i \in 1..Len(linearTokenLists) : linearTokenLists[i] = id

ComesBefore(x, y) ==
    InWorklist(x) /\ InWorklist(y) /\ WorklistPosition(x) < WorklistPosition(y)

\* The content sequences of the non-empty groups whose token is in list id
GroupContents(id) ==
    {lists[id][i].mContent :
        i \in {j \in 1..Len(lists[id]) :
                  /\ lists[id][j].type = "PARENTHESIS"
                  /\ lists[lists[id][j].mContent] # <<>>}}

\* The comma items of a sequence, none when it is no comma list
CommaItems(id) ==
    IF lists[id] # <<>> /\ lists[id][1].type = "COMMA_SEPARATED"
    THEN lists[id][1].mContent
    ELSE <<>>

\* The units nested in a group: its content and the comma items of it
NestedUnits(content) ==
    {content} \cup {CommaItems(content)[j] : j \in 1..Len(CommaItems(content))}

WorklistOrdered(t) ==
    /\ \A id \in 1..Len(lists) : \A content \in GroupContents(id) :
          /\ \A u \in NestedUnits(content) : ComesBefore(u, id)
          /\ ComesBefore(content, root[t])
    /\ \A id \in 1..Len(lists) : \A j \in 1..Len(CommaItems(id)) :
          /\ InWorklist(id)
          /\ InWorklist(CommaItems(id)[j])
          /\ WorklistPosition(CommaItems(id)[j]) = WorklistPosition(id) + j

\* A unit the passes are through with: it lies before the current unit and
\* holds no identifier and no operator any more
UnitFolded(t, u) ==
    /\ InWorklist(u)
    /\ WorklistPosition(u) <= k[t]
    /\ \A i \in 1..Len(lists[u]) : lists[u][i].type \notin {"IDENTIFIER", "OPERATOR"}

\* C28: in the worklist left by parenthesis structuring and comma splitting
\* the content of every non-empty group and the comma items of it come
\* before the sequence that holds the group token, the content comes before
\* the root, and the items of a comma list follow it immediately, left to
\* right; and whenever a per-unit pass runs on a unit, every unit nested in
\* a group of that unit has been through all passes and is folded.
C28_NestedUnitsFoldedFirst ==
    \A t \in Invocations :
        /\ AfterStructuring(t) => WorklistOrdered(t)
        /\ pc[t] \in PerUnitPasses
           => \A content \in GroupContents(Unit(t)) :
                 \A u \in NestedUnits(content) : UnitFolded(t, u)

\* "((a + b), a + b), a + b": the passes start on the first item of the
\* root, which holds the outer group; the group's content, its two items and
\* the inner group's content lie before it in the worklist, folded
C28_OuterGroupAfterItsItems ==
    /\ pc[1] = "variables"
    /\ input[1] = JoinByCommas(<<NestGroup(JoinByCommas(<<NestGroup(NestLeaf), NestLeaf>>)),
                                 NestLeaf>>)
    /\ Len(linearTokenLists) = 7
    /\ k[1] = 5
    /\ \E content \in GroupContents(Unit(1)) :
          /\ Len(CommaItems(content)) = 2
          /\ GroupContents(CommaItems(content)[1]) # {}
          /\ \A u \in NestedUnits(content) : UnitFolded(1, u)

(***************************************************************************)
(* A declaration with an initialiser, compiled in a fresh scope: a type    *)
(* name, a variable name, and "=" with a global variable, a constant, the  *)
(* declared name or an unknown name behind it.                             *)
(***************************************************************************)
ScopeTypes == {"UINT_8", "INT_32", "VOID"}

ScopeNames == {"x", "y"}

ScopeInitialisers == {"none", "a", "2", "x", "y"}

InitialiserTokens(init) ==
    CASE init = "none" -> <<>>
      [] init = "2"    -> <<Op("ASSIGN"), Constant(2, "CONST_INT")>>
      [] OTHER         -> <<Op("ASSIGN"), Identifier(init)>>

ScopeInputs ==
    {<<VarType(dt), Identifier(name)>> \o InitialiserTokens(init) :
        dt \in ScopeTypes, name \in ScopeNames, init \in ScopeInitialisers}

InitScope == \E tokens \in ScopeInputs : InitWith(tokens, NULL)

SpecScope == InitScope /\ [][Next]_vars

\* C29 as stated: when processTokens has failed, the local scope and the
\* variable table of the enclosing function are as they were before the
\* invocation, which started with both empty.
C29_FailureLeavesScopeUntouched ==
    \A t \in Invocations :
        pc[t] = "error" => (localVariables = <<>> /\ functionVariables = <<>>)

(***************************************************************************)
(* Two invocations of processTokens on two statements.  The worklist, the  *)
(* delimiter stack and the comma positions are function-local statics, one *)
(* copy for the whole process.  query.lock tells whether the callers hold  *)
(* a compile lock: with it the second invocation waits until the first has *)
(* returned or failed, without it both run and their passes interleave.    *)
(***************************************************************************)
SharedInputs ==
    {<<Identifier("a")>>,
     <<Op("PARENTHESIS_LEFT"), Identifier("a"), Op("PARENTHESIS_RIGHT")>>,
     <<Op("PARENTHESIS_LEFT"), Identifier("a")>>,
     <<Identifier("a"), Op("COMMA_SEPARATOR"), Identifier("b")>>,
     <<Op("PARENTHESIS_LEFT"), Identifier("a"), Op("COMMA_SEPARATOR"),
       Identifier("b"), Op("PARENTHESIS_RIGHT")>>}

InitShared ==
    \E first \in SharedInputs, second \in SharedInputs, lock \in BOOLEAN :
        /\ lists = <<first, second>>
        /\ root = [t \in Invocations |-> t]
        /\ input = [t \in Invocations |-> IF t = 1 THEN first ELSE second]
        /\ hint = [t \in Invocations |-> NULL]
        /\ linearTokenLists = <<>>
        /\ parenthesisStack = <<>>
        /\ commaPositions = <<>>
        /\ k = [t \in Invocations |-> 0]
        /\ idx = [t \in Invocations |-> 0]
        /\ pc = [t \in Invocations |->
                    IF t = 1 \/ ~lock THEN "defines" ELSE "waiting"]
        /\ error = [t \in Invocations |-> ""]
        /\ ub = [t \in Invocations |-> FALSE]
        /\ localVariables = <<>>
        /\ functionVariables = <<>>
        /\ query = [fn |-> "processTokens", lock |-> lock]
        /\ answer = [ready |-> FALSE]

\* The compile lock: a waiting invocation starts once every other one has
\* returned or failed
AcquireLock(t) ==
    /\ pc[t] = "waiting"
    /\ \A u \in Invocations \ {t} : pc[u] \in {"done", "error"}
    /\ Goto(t, "defines")
    /\ UNCHANGED <<lists, root, input, hint, linearTokenLists, parenthesisStack,
                   commaPositions, k, idx, error, ub, localVariables,
                   functionVariables, query, answer>>

\* The loop of invocation t stands behind the end of a worklist that another
\* invocation has cleared and refilled in between: its iterator is invalid.
\* The build may crash on it, or take the loop to be over.
StaleUnit(t) ==
    /\ pc[t] \in PerUnitPasses
    /\ k[t] >= Len(linearTokenLists)
    /\ ub' = [ub EXCEPT ![t] = TRUE]
    /\ \E outcome \in {"crashed", "types"} : Goto(t, outcome)
    /\ UNCHANGED <<lists, root, input, hint, linearTokenLists, parenthesisStack,
                   commaPositions, k, idx, error, localVariables,
                   functionVariables, query, answer>>

NextShared ==
    \/ Next
    \/ \E t \in Invocations : AcquireLock(t)
    \/ \E t \in Invocations : StaleUnit(t)

SpecShared == InitShared /\ [][NextShared]_vars

\* The units of the token tree under list id: the list, the contents of its
\* non-empty groups, the items of its comma list, and theirs
RECURSIVE TreeUnits(_)
TreeUnits(id) ==
    {id} \cup UNION {TreeUnits(content) : content \in GroupContents(id)}
         \cup UNION {TreeUnits(CommaItems(id)[j]) : j \in 1..Len(CommaItems(id))}

WorklistUnits == {linearTokenLists[i] : i \in 1..Len(linearTokenLists)}

\* The worklist holds the units of the tree of invocation t, each once
WorklistIsOwn(t) ==
    /\ WorklistUnits = TreeUnits(root[t])
    /\ Cardinality(WorklistUnits) = Len(linearTokenLists)

\* C30, under the lock: when the structural passes of an invocation are
\* through, the worklist holds exactly the units of its own token tree and
\* the delimiter stack is empty, whatever the invocation before it left in
\* them, and while its per-unit passes run the loop stands inside a worklist
\* that no step changes.
C30_LockedInvocationsOwnTheirUnits ==
    /\ [](query.fn = "processTokens" /\ query.lock
          => \A t \in Invocations :
                /\ AfterStructuring(t) => (WorklistIsOwn(t) /\ parenthesisStack = <<>>)
                /\ pc[t] \in PerUnitPasses => k[t] < Len(linearTokenLists))
    /\ [][(query.fn = "processTokens" /\ query.lock)
          => \A t \in Invocations :
                pc[t] \in PerUnitPasses => linearTokenLists' = linearTokenLists]_vars

\* C30, without the lock: "a" and "(a, b)" interleaved.  The second
\* invocation has only built its worklist; the first one has split the
\* comma list of the second statement, resolved the identifiers of all its
\* units and returned normally, its own root still holding the unresolved
\* identifier.
C30_OtherUnitsProcessedWithoutLock ==
    /\ query.fn = "processTokens" /\ ~query.lock
    /\ pc[1] = "done" /\ pc[2] = "commas"
    /\ ~ub[1] /\ ~ub[2]
    /\ input[1] = <<Identifier("a")>>
    /\ lists[root[1]] = <<Identifier("a")>>
    /\ Len(input[2]) = 5
    /\ Cardinality(TreeUnits(root[2])) = 4
    /\ \A u \in TreeUnits(root[2]) :
          \A i \in 1..Len(lists[u]) : lists[u][i].type # "IDENTIFIER"

============================================================================
